---- MODULE Spec2Model ----
(***************************************************************************)
(* Verification model of the Wi-SUN router daemon (wsrd) core:             *)
(*   - 6LoWPAN fragment reassembly (RFC 815 hole list)                     *)
(*   - ETX link-quality estimator                                          *)
(*   - RPL MRHOF parent selection                                          *)
(*   - join state machine                                                  *)
(* Each subsystem has its own specification over the shared variables.     *)
(***************************************************************************)
EXTENDS Integers, Sequences, FiniteSets, TLC

(***************************************************************************)
(* Generic helpers                                                         *)
(***************************************************************************)
Min(a, b) == IF a < b THEN a ELSE b
Max(a, b) == IF a > b THEN a ELSE b

RECURSIVE SubSeqs(_)
\* All order-preserving sub-lists of a sequence.
SubSeqs(s) ==
    IF s = <<>> THEN {<<>>}
    ELSE LET r == SubSeqs(Tail(s))
         IN r \cup {<<Head(s)>> \o x : x \in r}

\* s without its i-th element
RemoveAt(s, i) == SubSeq(s, 1, i - 1) \o SubSeq(s, i + 1, Len(s))

(***************************************************************************)
(* 6LoWPAN fragmentation: bounds and constants                             *)
(***************************************************************************)
\* datagram_size of the main datagram (bytes)
MaxLen == 20
\* datagram_size of the secondary datagrams (bytes)
SmallLen == 4
\* number of reassembly contexts alive at once
MaxReasm == 2
\* reasm_timeout_ms, counted in clock ticks of the model
ReasmTimeoutTicks == 2
\* number of keys the stored network-keys file holds
MaxStoredKeys == 2
\* fragment offsets are counted in units of 8 bytes
FragUnit == 8
UINT16_MOD == 65536

\* (src, dst, tag, len) of the main datagram and of a secondary one
T0 == <<1, 2, 1, MaxLen>>
T1 == <<1, 2, 2, SmallLen>>
Tuples == {T0, T1}

\* Byte at position p (0-based) of datagram content c. Contents "A" and "B"
\* differ at every position and differ from the zalloc()ed value 0.
Data(c, p) == IF c = "A" THEN p + 1 ELSE p + 101

VARIABLES
    reasm_list,   \* struct lowpan_frag_ctx.reasm_list (head first)
    frag_call,    \* the last operation of the fragmentation layer, with its result
    frag_out,     \* pktbuf as left by the last lowpan_frag_recv()
    frag_tx,      \* a sender's datagram in flight on tuple T0
    frag_ub,      \* "ok", "ub" after a use-after-free, "crashed"
    ws_etx,       \* struct ws_etx of one neighbor
    etx_ctx,      \* struct ws_etx_ctx: update_min_tx_req_cnt and the two periods
    etx_hist,     \* the last ETX operation and what has been fed in so far
    rpl_neigh,    \* ipv6_ctx.neigh_cache: the neighbors, in list order
    rpl_mrhof,    \* struct rpl_mrhof: lowest_advertised_rank
    rpl_hist,     \* the last RPL operation: the table before it and its result
    wsrd,         \* struct wsrd: the join state and what its handlers touch
    join_hist,    \* the last join_state_transition(): event, wsrd before and
                  \* after the call, and the steps it took
    supp_gtks,    \* struct supp_ctx.gtks: the GTK and LGTK slots
    supp_hist,    \* the last supp_storage_load(): the file it read, the
                  \* counters the file was written from, the keys notified
    auth_supps,   \* struct auth_ctx.supplicants, by EUI-64
    auth_hist     \* the last operation of the authenticator and the frames
                  \* it retransmitted

fragVars == <<reasm_list, frag_call, frag_out, frag_tx, frag_ub>>
etxVars == <<ws_etx, etx_ctx, etx_hist>>
rplVars == <<rpl_neigh, rpl_mrhof, rpl_hist>>
joinVars == <<wsrd, join_hist>>
suppVars == <<supp_gtks, supp_hist>>
authVars == <<auth_supps, auth_hist>>

vars == <<fragVars, etxVars, rplVars, joinVars, suppVars, authVars>>

\* What each subsystem leaves alone
FragFrame == UNCHANGED <<etxVars, rplVars, joinVars, suppVars, authVars>>
EtxFrame == UNCHANGED <<fragVars, rplVars, joinVars, suppVars, authVars>>
RplFrame == UNCHANGED <<fragVars, etxVars, joinVars, suppVars, authVars>>
JoinFrame == UNCHANGED <<fragVars, etxVars, rplVars, suppVars, authVars>>
SuppFrame == UNCHANGED <<fragVars, etxVars, rplVars, joinVars, authVars>>
AuthFrame == UNCHANGED <<fragVars, etxVars, rplVars, joinVars, suppVars>>

(***************************************************************************)
(* lowpan_hole_add / lowpan_reasm_update                                   *)
(***************************************************************************)
\* "Check overlap" of lowpan_reasm_update
HoleOverlaps(h, frag_first, frag_end) ==
    ~(frag_first >= h[2] \/ frag_end <= h[1])

\* A variant that forgets the hole behind the fragment.
HolePieces_LeadingOnly(h, frag_first, frag_end) ==
    IF frag_first > h[1] THEN <<<<h[1], frag_first>>>> ELSE <<>>

\* A variant that inserts the hole behind the fragment first.
HolePieces_LowerFirst(h, frag_first, frag_end) ==
    (IF frag_first > h[1] THEN <<<<h[1], frag_first>>>> ELSE <<>>) \o
    (IF frag_end < h[2] THEN <<<<frag_end, h[2]>>>> ELSE <<>>)

\* The holes lowpan_hole_add() inserts for one removed hole, in list order
\* after both insertions at the head.
HolePieces(h, frag_first, frag_end) ==
    (IF frag_end < h[2] THEN <<<<frag_end, h[2]>>>> ELSE <<>>) \o
    (IF frag_first > h[1] THEN <<<<h[1], frag_first>>>> ELSE <<>>)

RECURSIVE HolesAdded(_, _, _)
HolesAdded(holes, frag_first, frag_end) ==
    IF holes = <<>> THEN <<>>
    ELSE IF HoleOverlaps(Head(holes), frag_first, frag_end)
         THEN HolesAdded(Tail(holes), frag_first, frag_end)
              \o HolePieces(Head(holes), frag_first, frag_end)
         ELSE HolesAdded(Tail(holes), frag_first, frag_end)

HolesKept(holes, frag_first, frag_end) ==
    SelectSeq(holes, LAMBDA h : ~HoleOverlaps(h, frag_first, frag_end))

HolesRemoved(holes, frag_first, frag_end) ==
    SelectSeq(holes, LAMBDA h : HoleOverlaps(h, frag_first, frag_end))

\* The loop's result when every unlink goes through a live "prev".
HolePunch(holes, frag_first, frag_end) ==
    HolesAdded(holes, frag_first, frag_end) \o HolesKept(holes, frag_first, frag_end)

\* The loop keeps "prev = hole" after free(hole): when the next list element
\* overlaps too, SLIST_NEXT(prev, link) is written through a dangling pointer.
HoleLoopUAF(holes, frag_first, frag_end) ==
    \E i \in 1..(Len(holes) - 1) :
        /\ HoleOverlaps(holes[i], frag_first, frag_end)
        /\ HoleOverlaps(holes[i + 1], frag_first, frag_end)

\* Hole lists a build can be left with after the use-after-free: nodes may be
\* lost (unlinked with the reused chunk) and freed nodes may stay linked.
HoleLoopUAFOutcomes(holes, frag_first, frag_end) ==
    SubSeqs(HolePunch(holes, frag_first, frag_end)
            \o HolesRemoved(holes, frag_first, frag_end))

FragFirst(offset) == (offset * FragUnit) % UINT16_MOD
FragEnd(offset, buf_len) == (FragFirst(offset) + buf_len) % UINT16_MOD

\* A variant that copies the payload to the start of the buffer.
BufCopy_AtStart(buf, frag_first, frag_end, content) ==
    [i \in 1..Len(buf) |->
        IF i <= frag_end - frag_first THEN Data(content, frag_first + i - 1)
        ELSE buf[i]]

\* memcpy(reasm->buf + frag_first, buf, buf_len); buf is 1-indexed here.
BufCopy(buf, frag_first, frag_end, content) ==
    [i \in 1..Len(buf) |->
        IF frag_first < i /\ i <= frag_end THEN Data(content, i - 1) ELSE buf[i]]

\* A variant without the two checks on the fragment's range.
lowpan_reasm_update_NoRangeCheck(reasm, content, buf_len, offset) ==
    {[ret |-> "OK",
      holes |-> HolePunch(reasm.holes, FragFirst(offset), FragEnd(offset, buf_len)),
      buf |-> BufCopy(reasm.buf, FragFirst(offset), FragEnd(offset, buf_len), content),
      ub |-> FALSE]}

\* The set of results of lowpan_reasm_update: [ret, holes, buf, ub]
lowpan_reasm_update(reasm, content, buf_len, offset) ==
    LET frag_first == FragFirst(offset)
        frag_end   == FragEnd(offset, buf_len)
        rejected   == {[ret |-> "EINVAL", holes |-> reasm.holes,
                        buf |-> reasm.buf, ub |-> FALSE]}
    IN IF frag_end > reasm.len THEN rejected
       ELSE IF frag_end # reasm.len /\ buf_len % FragUnit # 0 THEN rejected
       ELSE IF HoleLoopUAF(reasm.holes, frag_first, frag_end)
            THEN {[ret |-> "OK", holes |-> hs,
                   buf |-> BufCopy(reasm.buf, frag_first, frag_end, content),
                   ub |-> TRUE] :
                  hs \in HoleLoopUAFOutcomes(reasm.holes, frag_first, frag_end)}
            ELSE {[ret |-> "OK",
                   holes |-> HolePunch(reasm.holes, frag_first, frag_end),
                   buf |-> BufCopy(reasm.buf, frag_first, frag_end, content),
                   ub |-> FALSE]}

(***************************************************************************)
(* lowpan_reasm_get / lowpan_reasm_new / lowpan_reasm_del                  *)
(***************************************************************************)
ReasmTuple(r) == <<r.src, r.dst, r.tag, r.len>>

\* A variant that does not compare the source address.
lowpan_reasm_get_AnySrc(list, t) ==
    IF \E i \in 1..Len(list) : Tail(ReasmTuple(list[i])) = Tail(t)
    THEN CHOOSE i \in 1..Len(list) :
            /\ Tail(ReasmTuple(list[i])) = Tail(t)
            /\ \A j \in 1..(i - 1) : Tail(ReasmTuple(list[j])) # Tail(t)
    ELSE 0

\* Index of the first context of the tuple, 0 when there is none (NULL).
lowpan_reasm_get(list, t) ==
    IF \E i \in 1..Len(list) : ReasmTuple(list[i]) = t
    THEN CHOOSE i \in 1..Len(list) :
            /\ ReasmTuple(list[i]) = t
            /\ \A j \in 1..(i - 1) : ReasmTuple(list[j]) # t
    ELSE 0

\* A variant whose timer is started one tick too long.
NewReasm_LongTimer(t) ==
    [src |-> t[1], dst |-> t[2], tag |-> t[3], len |-> t[4],
     holes |-> <<<<0, t[4]>>>>,
     buf |-> [i \in 1..t[4] |-> 0],
     timer |-> ReasmTimeoutTicks + 1,
     age |-> 0]

\* lowpan_reasm_new: zalloc, one hole [0, len), timer started
NewReasm(t) ==
    [src |-> t[1], dst |-> t[2], tag |-> t[3], len |-> t[4],
     holes |-> <<<<0, t[4]>>>>,
     buf |-> [i \in 1..t[4] |-> 0],
     timer |-> ReasmTimeoutTicks,
     age |-> 0]

lowpan_reasm_new(list, t) == <<NewReasm(t)>> \o list

\* A variant that leaves the context in the list.
lowpan_reasm_del_Keep(list, i) == list

lowpan_reasm_del(list, i) == RemoveAt(list, i)

(***************************************************************************)
(* lowpan_frag_recv                                                        *)
(***************************************************************************)
\* Byte k (1-indexed) of a context is outside every hole.
Filled(reasm, k) ==
    \A j \in 1..Len(reasm.holes) :
        ~(reasm.holes[j][1] < k /\ k <= reasm.holes[j][2])

NoPkt == [err |-> FALSE, buf |-> <<>>]

\* The results of lowpan_iphc_decmpr_finish: 0 or a negative errno
lowpan_iphc_decmpr_finish == {"OK", "EFINISH"}

\* The range lowpan_reasm_update is called with, <<0, 0>> when it is not called
FragRange(f, updated) ==
    IF updated THEN <<FragFirst(f.offset), FragEnd(f.offset, f.n)>> ELSE <<0, 0>>

\* The set of results of lowpan_frag_recv for fragment f:
\* [list, ret, out, ub, range, created, overlap].
\* f.hdr_ok: the fragment header was popped without pktbuf error;
\* f.empty, f.iphc, f.dec_ok (FRAG1 only): the payload is empty, starts with
\* an IPHC dispatch, lowpan_iphc_decmpr succeeds; f.n is the payload length
\* handed to lowpan_reasm_update.
lowpan_frag_recv(list, f) ==
    IF ~f.hdr_ok
    THEN {[list |-> list, ret |-> "EINVAL", out |-> [err |-> TRUE, buf |-> <<>>],
           ub |-> FALSE, range |-> FragRange(f, FALSE), created |-> FALSE,
           overlap |-> FALSE]}
    ELSE
    LET found == lowpan_reasm_get(list, f.t)
        list1 == IF found = 0 THEN lowpan_reasm_new(list, f.t) ELSE list
        idx   == IF found = 0 THEN 1 ELSE found
        reasm == list1[idx]
        \* the fragment covers a byte that an earlier fragment filled
        overlap == \E k \in 1..reasm.len :
                      /\ FragFirst(f.offset) < k /\ k <= FragEnd(f.offset, f.n)
                      /\ Filled(reasm, k)
        early(ret, err) == {[list |-> list1, ret |-> ret,
                             out |-> [err |-> err, buf |-> <<>>], ub |-> FALSE,
                             range |-> FragRange(f, FALSE),
                             created |-> found = 0, overlap |-> FALSE]}
        done(u, ret) == [list |-> lowpan_reasm_del(list1, idx), ret |-> ret,
                         out |-> [err |-> ret # "OK", buf |-> u.buf],
                         ub |-> u.ub, range |-> FragRange(f, TRUE),
                         created |-> found = 0, overlap |-> overlap]
        updates == lowpan_reasm_update(reasm, f.content, f.n, f.offset)
    IN IF f.kind = "FRAG1" /\ f.empty THEN early("EINVAL", FALSE)
       ELSE IF f.kind = "FRAG1" /\ ~f.iphc THEN early("ENOTSUP", TRUE)
       ELSE IF f.kind = "FRAG1" /\ ~f.dec_ok THEN early("EINVAL", TRUE)
       ELSE
       {  IF u.ret # "OK"
          THEN [list |-> list1, ret |-> u.ret,
                out |-> [err |-> TRUE, buf |-> <<>>], ub |-> FALSE,
                range |-> FragRange(f, TRUE), created |-> found = 0,
                overlap |-> overlap]
          ELSE [list |-> [list1 EXCEPT ![idx].holes = u.holes, ![idx].buf = u.buf],
                ret |-> "EAGAIN", out |-> NoPkt, ub |-> u.ub,
                range |-> FragRange(f, TRUE), created |-> found = 0,
                overlap |-> overlap]
          : u \in {x \in updates : x.ret # "OK" \/ x.holes # <<>>} }
       \cup
       { done(u, ret) : u \in {x \in updates : x.ret = "OK" /\ x.holes = <<>>},
                        ret \in lowpan_iphc_decmpr_finish }

(***************************************************************************)
(* Fragments the link can deliver                                          *)
(***************************************************************************)
\* Payload lengths: whole units, final remainders, and half a unit
PayloadLens(len) ==
    {n \in 0..len :
        n % FragUnit = 0 \/ (len - n) % FragUnit = 0 \/ n = FragUnit \div 2}
Offsets(len) == 0..(len \div FragUnit)

FragN(t) ==
    [kind : {"FRAGN"}, hdr_ok : {TRUE}, t : {t}, offset : Offsets(t[4]),
     n : PayloadLens(t[4]), content : {"B"},
     empty : {FALSE}, iphc : {TRUE}, dec_ok : {TRUE}]

Frag1(t) ==
    [kind : {"FRAG1"}, hdr_ok : {TRUE}, t : {t}, offset : {0},
     n : PayloadLens(t[4]) \ {0}, content : {"B"},
     empty : {FALSE}, iphc : {TRUE}, dec_ok : {TRUE}]

\* Fragments lowpan_frag_recv drops before lowpan_reasm_update
FragBad(t) ==
    { [kind |-> "FRAGN", hdr_ok |-> FALSE, t |-> t, offset |-> 0, n |-> 0,
       content |-> "B", empty |-> FALSE, iphc |-> TRUE, dec_ok |-> TRUE],
      [kind |-> "FRAG1", hdr_ok |-> TRUE, t |-> t, offset |-> 0, n |-> 0,
       content |-> "B", empty |-> TRUE, iphc |-> TRUE, dec_ok |-> TRUE],
      [kind |-> "FRAG1", hdr_ok |-> TRUE, t |-> t, offset |-> 0, n |-> FragUnit,
       content |-> "B", empty |-> FALSE, iphc |-> FALSE, dec_ok |-> TRUE],
      [kind |-> "FRAG1", hdr_ok |-> TRUE, t |-> t, offset |-> 0, n |-> FragUnit,
       content |-> "B", empty |-> FALSE, iphc |-> TRUE, dec_ok |-> FALSE] }

Frags(tuples) == UNION {FragN(t) \cup Frag1(t) \cup FragBad(t) : t \in tuples}

\* A fragment needs a new context only within the bound on contexts.
FragFits(list, f) ==
    \/ ~f.hdr_ok
    \/ lowpan_reasm_get(list, f.t) # 0
    \/ Len(list) < MaxReasm

(***************************************************************************)
(* The sender of one datagram on T0: a split of [0, MaxLen) on 8-byte      *)
(* boundaries, delivered in any order.                                     *)
(***************************************************************************)
CutPoints == {c \in 1..(MaxLen - 1) : c % FragUnit = 0}

\* The pieces <<first, end>> of the split at the cut points cs
SplitAt(cs) ==
    LET pts == cs \cup {0, MaxLen}
    IN {<<a, b>> \in pts \X pts :
            a < b /\ ~\E c \in pts : a < c /\ c < b}

NoTx == [active |-> FALSE, pieces |-> {}, pending |-> {}, rets |-> <<>>,
         clean |-> TRUE, frag1 |-> FALSE, iphc |-> TRUE, dec_ok |-> TRUE,
         out |-> NoPkt]

\* The fragment carrying piece p of the datagram in flight
TxFrag(tx, p) ==
    [kind |-> IF p[1] = 0 /\ tx.frag1 THEN "FRAG1" ELSE "FRAGN",
     hdr_ok |-> TRUE, t |-> T0, offset |-> p[1] \div FragUnit,
     n |-> p[2] - p[1], content |-> "A", empty |-> FALSE,
     iphc |-> tx.iphc, dec_ok |-> tx.dec_ok]

(***************************************************************************)
(* Actions of the fragmentation layer                                      *)
(***************************************************************************)
InitFrag ==
    /\ reasm_list = <<>>
    /\ frag_call = [op |-> "init"]
    /\ frag_out = NoPkt
    /\ frag_tx = NoTx
    /\ frag_ub = "ok"

\* The process is followed up to a heap corruption, not beyond it.
FragAlive == frag_ub = "ok"

\* The use-after-free may also end the process.
FragUbNext(r) ==
    IF r.ub THEN {"ub", "crashed"} ELSE {frag_ub}

\* The record of a call of lowpan_frag_recv
RecvCall(f, r) ==
    [op |-> "recv", t |-> f.t, range |-> r.range, ret |-> r.ret,
     created |-> r.created, overlap |-> r.overlap]

\* A frame with a FRAG1/FRAGN header of one of the tuples arrives.
FragRecvFrom(tuples) ==
    /\ FragAlive
    /\ \E f \in Frags(tuples) :
        /\ FragFits(reasm_list, f)
        /\ \E r \in lowpan_frag_recv(reasm_list, f) :
            /\ reasm_list' = r.list
            /\ frag_out' = r.out
            /\ frag_call' = RecvCall(f, r)
            /\ frag_ub' \in FragUbNext(r)
    /\ UNCHANGED frag_tx
    /\ FragFrame

\* Any fragment arrives.
FragRecv == FragRecvFrom(Tuples)

\* A fragment of another datagram arrives while the sender of T0 is at work.
FragRecvOther == FragRecvFrom(Tuples \ {T0})

\* The sender starts a datagram on T0 while no context of T0 exists.
TxStart ==
    /\ FragAlive
    /\ lowpan_reasm_get(reasm_list, T0) = 0
    /\ frag_tx.pending = {}
    /\ \E cs \in SUBSET CutPoints, frag1 \in BOOLEAN, iphc \in BOOLEAN,
          dec_ok \in BOOLEAN :
        /\ (~frag1) => (iphc /\ dec_ok)
        /\ frag_tx' = [active |-> TRUE, pieces |-> SplitAt(cs),
                       pending |-> SplitAt(cs), rets |-> <<>>, clean |-> TRUE,
                       frag1 |-> frag1, iphc |-> iphc, dec_ok |-> dec_ok,
                       out |-> NoPkt]
    /\ frag_call' = [op |-> "tx_start"]
    /\ UNCHANGED <<reasm_list, frag_out, frag_ub>>
    /\ FragFrame

\* One of the sender's fragments arrives.
TxDeliver ==
    /\ FragAlive
    /\ frag_tx.active
    /\ \E p \in frag_tx.pending :
        LET f == TxFrag(frag_tx, p)
        IN /\ FragFits(reasm_list, f)
           /\ \E r \in lowpan_frag_recv(reasm_list, f) :
                /\ reasm_list' = r.list
                /\ frag_out' = r.out
                /\ frag_call' = RecvCall(f, r)
                /\ frag_ub' \in FragUbNext(r)
                /\ frag_tx' = [frag_tx EXCEPT !.pending = @ \ {p},
                                              !.rets = Append(@, r.ret),
                                              !.out = r.out]
    /\ FragFrame

\* lowpan_reasm_expire: the expiry timer of context i fires.
FragExpire ==
    /\ FragAlive
    /\ \E i \in 1..Len(reasm_list) :
        /\ reasm_list[i].timer = 0
        /\ reasm_list' = lowpan_reasm_del(reasm_list, i)
        /\ frag_call' = [op |-> "expire", t |-> ReasmTuple(reasm_list[i])]
        /\ frag_tx' = IF ReasmTuple(reasm_list[i]) = T0
                      THEN [frag_tx EXCEPT !.clean = FALSE]
                      ELSE frag_tx
    /\ UNCHANGED <<frag_out, frag_ub>>
    /\ FragFrame

\* One tick of the monotonic clock; an expired timer is served first.
FragTick ==
    /\ FragAlive
    /\ reasm_list # <<>>
    /\ \A i \in 1..Len(reasm_list) : reasm_list[i].timer > 0
    /\ reasm_list' = [i \in 1..Len(reasm_list) |->
                        [reasm_list[i] EXCEPT !.timer = @ - 1, !.age = @ + 1]]
    /\ frag_call' = [op |-> "tick"]
    /\ UNCHANGED <<frag_out, frag_tx, frag_ub>>
    /\ FragFrame

\* A datagram and four others that differ from it in the source address,
\* the destination address, the tag or the size alone
MatchTuples ==
    {<<1, 2, 1, SmallLen + FragUnit>>,
     <<3, 2, 1, SmallLen + FragUnit>>,
     <<1, 3, 1, SmallLen + FragUnit>>,
     <<1, 2, 2, SmallLen + FragUnit>>,
     <<1, 2, 1, SmallLen>>}

\* A fragment of one of these datagrams arrives.
FragRecvMatch == FragRecvFrom(MatchTuples)

NextFrag == FragRecv \/ FragExpire \/ FragTick

NextFragMatch == FragRecvMatch

NextFragTx == TxStart \/ TxDeliver \/ FragRecvOther \/ FragExpire \/ FragTick

(***************************************************************************)
(* Properties of the fragmentation layer                                   *)
(***************************************************************************)
\* The datagram of the sender on T0
DataA == [i \in 1..MaxLen |-> Data("A", i - 1)]

\* The sender's FRAG1, if any, is one the IPHC layer accepts.
TxWellFormed == frag_tx.frag1 => (frag_tx.iphc /\ frag_tx.dec_ok)

\* C2 (as amended): all fragments of a split of the datagram, delivered in
\* any order on one tuple before the timeout with an IPHC-decodable FRAG1,
\* return -EAGAIN except the last, which returns the result of
\* lowpan_iphc_decmpr_finish on the original bytes.
C2_Reassembly ==
    (frag_tx.active /\ frag_tx.clean /\ TxWellFormed) =>
        /\ \A i \in 1..Len(frag_tx.rets) :
              i < Cardinality(frag_tx.pieces) => frag_tx.rets[i] = "EAGAIN"
        /\ frag_tx.pending = {} =>
              /\ Len(frag_tx.rets) = Cardinality(frag_tx.pieces)
              /\ frag_tx.rets[Len(frag_tx.rets)] \in lowpan_iphc_decmpr_finish
              /\ frag_tx.out.err = (frag_tx.rets[Len(frag_tx.rets)] # "OK")
              /\ frag_tx.out.buf = DataA
              /\ lowpan_reasm_get(reasm_list, T0) = 0

C2_Witness ==
    /\ frag_tx.active /\ frag_tx.clean /\ frag_tx.frag1 /\ TxWellFormed
    /\ Cardinality(frag_tx.pieces) = 3
    /\ frag_tx.pending = {}
    /\ frag_tx.rets = <<"EAGAIN", "EAGAIN", "OK">>
    /\ frag_tx.out.buf = DataA

\* C2 as first stated: every such delivery returns -EAGAIN except the last,
\* which returns 0 with the original bytes.
C2_Original ==
    (frag_tx.active /\ frag_tx.clean) =>
        /\ \A i \in 1..Len(frag_tx.rets) :
              i < Cardinality(frag_tx.pieces) => frag_tx.rets[i] = "EAGAIN"
        /\ frag_tx.pending = {} =>
              /\ Len(frag_tx.rets) = Cardinality(frag_tx.pieces)
              /\ frag_tx.rets[Len(frag_tx.rets)] = "OK"
              /\ frag_tx.out.buf = DataA

\* C3: a fragment accepted into an existing context leaves every filled
\* byte outside its own range [first, end) as it was, in the context and in
\* the buffer handed over on completion.
C3_OverlapKeepsOutside ==
    [][ \A t \in Tuples :
          LET i == lowpan_reasm_get(reasm_list, t)
              j == lowpan_reasm_get(reasm_list', t)
              after == IF j # 0 THEN reasm_list'[j].buf ELSE frag_out'.buf
          IN (/\ i # 0
              /\ frag_call'.op = "recv" /\ frag_call'.t = t
              /\ frag_call'.ret \in {"EAGAIN", "OK", "EFINISH"})
             => \A k \in 1..t[4] :
                  (/\ Filled(reasm_list[i], k)
                   /\ (k <= frag_call'.range[1] \/ k > frag_call'.range[2]))
                  => after[k] = reasm_list[i].buf[k]
      ]_vars

\* A fragment overlapping filled bytes has been accepted while a filled
\* byte lies outside its range.
C3_Witness ==
    /\ frag_call.op = "recv" /\ frag_call.t = T0 /\ frag_call.ret = "EAGAIN"
    /\ frag_call.overlap
    /\ frag_call.range = <<FragUnit, 2 * FragUnit>>
    /\ lowpan_reasm_get(reasm_list, T0) # 0
    /\ LET r == reasm_list[lowpan_reasm_get(reasm_list, T0)]
       IN /\ r.buf[1] = Data("B", 0)
          /\ r.buf[MaxLen] = 0

\* C4: a context never outlives reasm_timeout_ms: its timer runs from its
\* creation without restart; the expiry removes it from the list so that a
\* lookup finds none; a context created by a later fragment is fresh (age
\* 0, zeroed buffer and the single hole [0, len) less the fragment).
C4_ExpiryDestroys ==
    /\ \A i \in 1..Len(reasm_list) :
          /\ reasm_list[i].age <= ReasmTimeoutTicks
          /\ reasm_list[i].timer = ReasmTimeoutTicks - reasm_list[i].age
    /\ frag_call.op = "expire" => lowpan_reasm_get(reasm_list, frag_call.t) = 0
    /\ \A i \in 1..Len(reasm_list) :
          (frag_call.op = "recv" /\ frag_call.t = ReasmTuple(reasm_list[i])
           /\ frag_call.created) =>
             LET r == reasm_list[i]
                 range == IF frag_call.ret = "EAGAIN" THEN frag_call.range
                          ELSE <<0, 0>>
             IN /\ r.age = 0
                /\ \A k \in 1..r.len :
                      (k <= range[1] \/ k > range[2]) => r.buf[k] = 0
                /\ \A k \in 1..r.len :
                      Filled(r, k) <=> (range[1] < k /\ k <= range[2])

\* The context of T0 has expired while another context stays.
C4_Witness ==
    /\ frag_call.op = "expire" /\ frag_call.t = T0
    /\ lowpan_reasm_get(reasm_list, T0) = 0
    /\ Len(reasm_list) = 1

\* C5: the call that empties the hole list removes the context (and with
\* it its timer) before it returns: between calls no context has an empty
\* hole list, so no expiry runs on a completed datagram.
C5_CompletionRemoves ==
    /\ \A i \in 1..Len(reasm_list) : reasm_list[i].holes # <<>>
    /\ (frag_call.op = "recv" /\ frag_call.ret \in lowpan_iphc_decmpr_finish)
         => lowpan_reasm_get(reasm_list, frag_call.t) = 0

\* The main datagram completed and its context is gone, another one stays.
C5_Witness ==
    /\ frag_call.op = "recv" /\ frag_call.t = T0 /\ frag_call.ret = "OK"
    /\ frag_call.range = <<2 * FragUnit, MaxLen>>
    /\ Len(frag_out.buf) = MaxLen
    /\ lowpan_reasm_get(reasm_list, T0) = 0
    /\ Len(reasm_list) = 1

\* RFC 815 hole list of a context: holes are non-empty, within [0, len),
\* pairwise disjoint and cover exactly the bytes no fragment has written.
HolesDescribeBuf(reasm) ==
    /\ \A j \in 1..Len(reasm.holes) :
          /\ 0 <= reasm.holes[j][1]
          /\ reasm.holes[j][1] < reasm.holes[j][2]
          /\ reasm.holes[j][2] <= reasm.len
    /\ \A i, j \in 1..Len(reasm.holes) :
          i # j => ~HoleOverlaps(reasm.holes[i], reasm.holes[j][1], reasm.holes[j][2])
    /\ \A k \in 1..reasm.len : Filled(reasm, k) <=> reasm.buf[k] # 0

\* C19: after every accepted fragment, whatever the prior hole list and the
\* fragment's range (a fragment overlapping two or more holes included), the
\* remaining holes of the context are pairwise disjoint, lie within
\* [0, len), do not intersect [frag_first, frag_end) and cover exactly the
\* bytes not covered by an accepted fragment.
C19_Original ==
    \A i \in 1..Len(reasm_list) :
        /\ HolesDescribeBuf(reasm_list[i])
        /\ (/\ frag_call.op = "recv" /\ frag_call.ret = "EAGAIN"
            /\ frag_call.range # <<0, 0>>
            /\ i = lowpan_reasm_get(reasm_list, frag_call.t))
           => \A j \in 1..Len(reasm_list[i].holes) :
                 ~HoleOverlaps(reasm_list[i].holes[j],
                               frag_call.range[1], frag_call.range[2])

\* The range of the last call exceeds the datagram size, or its length is
\* not a multiple of 8 bytes and it does not end at the datagram size.
FragRangeInvalid(call) ==
    /\ call.op = "recv"
    /\ \/ call.range[2] > call.t[4]
       \/ /\ call.range[2] # call.t[4]
          /\ (call.range[2] - call.range[1]) % FragUnit # 0

ReasmTuples(list) == {ReasmTuple(list[i]) : i \in 1..Len(list)}

\* C23: a call of lowpan_frag_recv that returns an error (neither 0 nor
\* -EAGAIN) leaves the set of active reassembly contexts as it was; a
\* rejected fragment of a tuple not seen before leaves no context behind.
C23_Original ==
    [][ (frag_call'.op = "recv" /\ frag_call'.ret \notin {"OK", "EAGAIN"})
            => ReasmTuples(reasm_list') = ReasmTuples(reasm_list)
      ]_vars

\* C36: a context is found by source, destination, tag and size together:
\* the list never holds two contexts of one tuple, and a fragment never
\* changes or removes a context whose tuple differs from its own in any of
\* the four fields.
C36_FourFieldMatch ==
    /\ [](\A i, j \in 1..Len(reasm_list) :
            ReasmTuple(reasm_list[i]) = ReasmTuple(reasm_list[j]) => i = j)
    /\ [][frag_call'.op = "recv" =>
            \A i \in 1..Len(reasm_list) :
                ReasmTuple(reasm_list[i]) # frag_call'.t =>
                    \E j \in 1..Len(reasm_list') : reasm_list'[j] = reasm_list[i]]_vars

\* A fragment was added to the context of one datagram while the list held
\* the half-filled context of another that differs in one field only.
C36_Witness ==
    /\ frag_call.op = "recv"
    /\ frag_call.ret = "EAGAIN"
    /\ ~frag_call.created
    /\ \E i, j \in 1..Len(reasm_list) :
        /\ ReasmTuple(reasm_list[i]) = frag_call.t
        /\ Cardinality({k \in 1..4 : ReasmTuple(reasm_list[j])[k] # frag_call.t[k]}) = 1
        /\ reasm_list[j].buf[1] # 0
        /\ reasm_list[j].holes # <<>>

\* The hole list is in ascending order of byte offset.
HolesSorted(holes) ==
    \A i, j \in 1..Len(holes) : i < j => holes[i][1] < holes[j][1]

\* The holes of the datagram's context, <<>> when there is no context
HolesOf(list, t) ==
    IF lowpan_reasm_get(list, t) = 0 THEN <<>>
    ELSE list[lowpan_reasm_get(list, t)].holes

\* The hole list the fragment was applied to: the one found, or the single
\* hole of the context created for it
HolesBefore(list, t) ==
    IF lowpan_reasm_get(list, t) = 0 THEN <<<<0, t[4]>>>> ELSE HolesOf(list, t)

\* The last call added a fragment to a context that stays on the list, and
\* the hole loop did not run through a freed node.
FragAccepted(call, holes) ==
    /\ call.op = "recv"
    /\ call.ret = "EAGAIN"
    /\ call.range # <<0, 0>>
    /\ ~HoleLoopUAF(holes, call.range[1], call.range[2])

MaxEtxUpdates == 5
\* update_min_delay_ms and refresh_period_ms in clock ticks
EtxMinDelayTicks == 1
EtxRefreshTicks == 2
\* WS_ETX_UPDATE_MIN_TX_REQ_CNT
EtxMinTxReq == 4
WS_ETX_MAX == 1024
EtxScale == 128
EtxComputeCntMax == 8
\* tx_count of one confirmation: none, one attempt, nine attempts
TxCounts == {0, 1, 9}

NaN == <<0, 0>>
isnan(x) == x[2] = 0

RECURSIVE GCD(_, _)
GCD(a, b) == IF b = 0 THEN a ELSE GCD(b, a % b)

Abs(a) == IF a < 0 THEN -a ELSE a

\* The rational n/d in lowest terms (d > 0)
Rat(n, d) ==
    LET g == GCD(Abs(n), d) IN <<n \div g, d \div g>>

RatLess(x, y) == x[1] * y[2] < y[1] * x[2]
RatMin(x, y) == IF RatLess(x, y) THEN x ELSE y

\* sf * (val - cur) + cur
RatBlend(cur, val, sf) ==
    Rat(sf[1] * (val[1] * cur[2] - cur[1] * val[2]) * cur[2]
          + cur[1] * (sf[2] * val[2] * cur[2]),
        sf[2] * val[2] * cur[2] * cur[2])

\* ws_ewma_next
ws_ewma_next(cur, val, sf) ==
    IF isnan(cur) THEN val ELSE RatBlend(cur, val, sf)

\* A variant without the cap at WS_ETX_MAX.
EtxRaw_NoCap(tx_cnt, ack_cnt) ==
    IF ack_cnt # 0 THEN Rat(tx_cnt * EtxScale, ack_cnt) ELSE <<WS_ETX_MAX, 1>>

\* A variant that divides by at least one acknowledgement.
EtxRaw_AckFloor(tx_cnt, ack_cnt) ==
    RatMin(Rat(tx_cnt * EtxScale, Max(ack_cnt, 1)), <<WS_ETX_MAX, 1>>)

\* (frame transmission attempts) / (received acknowledgements) * 128
EtxRaw(tx_cnt, ack_cnt) ==
    IF ack_cnt # 0
    THEN RatMin(Rat(tx_cnt * EtxScale, ack_cnt), <<WS_ETX_MAX, 1>>)
    ELSE <<WS_ETX_MAX, 1>>

\* A variant of ws_etx_init that keeps compute_cnt.
ws_etx_init_KeepCount(e) ==
    [etx |-> NaN, tx_cnt |-> 0, ack_cnt |-> 0, tx_req_cnt |-> 0,
     compute_cnt |-> e.compute_cnt,
     timer_compute |-> e.timer_compute, timer_outdated |-> e.timer_outdated]

\* ws_etx_init: the timers are left as they are
ws_etx_init(e) ==
    [etx |-> NaN, tx_cnt |-> 0, ack_cnt |-> 0, tx_req_cnt |-> 0,
     compute_cnt |-> 0,
     timer_compute |-> e.timer_compute, timer_outdated |-> e.timer_outdated]

\* A variant that leaves the timers running.
ws_etx_reset_KeepTimers(e) == ws_etx_init(e)

\* ws_etx_reset: both timers stopped (-1), then ws_etx_init
ws_etx_reset(e) ==
    ws_etx_init([e EXCEPT !.timer_compute = -1, !.timer_outdated = -1])

\* A variant of ws_etx_update that restarts a running compute timer.
ws_etx_update_Rearm(e, tx_count, ack) ==
    [e EXCEPT !.tx_req_cnt = @ + 1,
              !.tx_cnt = @ + tx_count,
              !.ack_cnt = @ + (IF ack THEN 1 ELSE 0),
              !.timer_compute = 0]

\* ws_etx_update
ws_etx_update(e, tx_count, ack) ==
    [e EXCEPT !.tx_req_cnt = @ + 1,
              !.tx_cnt = @ + tx_count,
              !.ack_cnt = @ + (IF ack THEN 1 ELSE 0),
              !.timer_compute = IF @ = -1 THEN 0 ELSE @]

\* A variant of the epoch test that is content with one request.
EtxEpoch_AnyRequest(ctx, e) == e.tx_req_cnt >= 1 \/ isnan(e.etx)

\* The epoch test of ws_etx_timeout_compute
EtxEpoch(ctx, e) == e.tx_req_cnt >= ctx.update_min_tx_req_cnt \/ isnan(e.etx)

\* A variant that calls on_etx_outdated whatever the state of timer_outdated.
ws_etx_timeout_compute_AlwaysProbe(ctx, e0) ==
    LET e == [e0 EXCEPT !.timer_compute = -1]
    IN IF ~EtxEpoch(ctx, e)
       THEN [e |-> e, outdated |-> TRUE, updated |-> FALSE]
       ELSE [e |-> [e EXCEPT !.etx = ws_ewma_next(e.etx, EtxRaw(e.tx_cnt, e.ack_cnt),
                                                  <<1, Min(e.compute_cnt + 1, EtxComputeCntMax)>>),
                             !.compute_cnt = Min(e.compute_cnt + 1, EtxComputeCntMax),
                             !.tx_cnt = 0, !.ack_cnt = 0, !.tx_req_cnt = 0,
                             !.timer_compute = ctx.update_min_delay,
                             !.timer_outdated = ctx.refresh_period],
             outdated |-> FALSE, updated |-> TRUE]

\* ws_etx_timeout_compute after its timer has been stopped for the callback:
\* [e, outdated, updated] with the callbacks it made
ws_etx_timeout_compute(ctx, e0) ==
    LET e == [e0 EXCEPT !.timer_compute = -1]
    IN IF ~EtxEpoch(ctx, e)
       THEN [e |-> e, outdated |-> e.timer_outdated = -1, updated |-> FALSE]
       ELSE LET raw == EtxRaw(e.tx_cnt, e.ack_cnt)
                cnt == IF e.compute_cnt < EtxComputeCntMax
                       THEN e.compute_cnt + 1 ELSE e.compute_cnt
            IN [e |-> [e EXCEPT !.etx = ws_ewma_next(e.etx, raw, <<1, cnt>>),
                                !.compute_cnt = cnt,
                                !.tx_cnt = 0, !.ack_cnt = 0, !.tx_req_cnt = 0,
                                !.timer_compute = ctx.update_min_delay,
                                !.timer_outdated = ctx.refresh_period],
                outdated |-> FALSE, updated |-> TRUE]

EtxCtxDefault ==
    [update_min_tx_req_cnt |-> EtxMinTxReq,
     update_min_delay |-> EtxMinDelayTicks,
     refresh_period |-> EtxRefreshTicks]

\* The parameters join state 4 (choose parent) sets after a PAN configuration
EtxCtxFast ==
    [update_min_tx_req_cnt |-> 1, update_min_delay |-> 0, refresh_period |-> 0]

\* A zalloc()ed struct ws_etx, its timers stopped
EtxZeroed ==
    [etx |-> <<0, 1>>, tx_cnt |-> 0, ack_cnt |-> 0, tx_req_cnt |-> 0,
     compute_cnt |-> 0, timer_compute |-> -1, timer_outdated |-> -1]

InitEtx ==
    /\ ws_etx = ws_etx_init(EtxZeroed)
    /\ etx_ctx = EtxCtxDefault
    /\ etx_hist = [op |-> "init", n |-> 0, updates |-> 0, inputs_ok |-> TRUE,
                  loss |-> FALSE, age |-> 0, delay |-> 0]

\* A TX confirmation of the neighbor: ws_etx_update(tx_count, ack)
EtxUpdate ==
    /\ etx_hist.updates < MaxEtxUpdates
    /\ \E tx_count \in TxCounts, ack \in BOOLEAN :
        /\ ws_etx' = ws_etx_update(ws_etx, tx_count, ack)
        /\ etx_hist' = [etx_hist EXCEPT !.op = "update", !.loss = FALSE,
                                        !.updates = @ + 1,
                                        !.inputs_ok = @ /\ tx_count >= 1]
    /\ UNCHANGED etx_ctx
    /\ EtxFrame

\* The compute timer fires.
EtxTimeoutCompute ==
    /\ ws_etx.timer_compute = 0
    /\ LET r == ws_etx_timeout_compute(etx_ctx, ws_etx)
       IN /\ ws_etx' = r.e
          /\ etx_hist' = [etx_hist EXCEPT
                            !.op = IF r.updated THEN "computed"
                                   ELSE IF r.outdated THEN "probe" ELSE "early",
                            !.n = IF r.updated THEN Min(@ + 1, EtxComputeCntMax + 1)
                                  ELSE @,
                            !.loss = r.updated /\ ws_etx.ack_cnt = 0,
                            !.age = IF r.updated THEN 0 ELSE @,
                            !.delay = IF r.updated THEN etx_ctx.update_min_delay
                                      ELSE @]
    /\ UNCHANGED etx_ctx
    /\ EtxFrame

\* ws_etx_timeout_outdated: the refresh timer fires.
EtxTimeoutOutdated ==
    /\ ws_etx.timer_outdated = 0
    /\ ws_etx' = [ws_etx EXCEPT !.timer_outdated = -1]
    /\ etx_hist' = [etx_hist EXCEPT !.op = "outdated", !.loss = FALSE]
    /\ UNCHANGED etx_ctx
    /\ EtxFrame

\* join_state_4_choose_parent_enter after PC_RX: every estimator is reset
\* and the fast parameters are set.
EtxChooseParentEnter ==
    /\ etx_ctx = EtxCtxDefault
    /\ ws_etx' = ws_etx_reset(ws_etx)
    /\ etx_ctx' = EtxCtxFast
    /\ etx_hist' = [etx_hist EXCEPT !.op = "reset", !.n = 0, !.loss = FALSE,
                                    !.age = 0, !.delay = 0]
    /\ EtxFrame

\* join_state_4_choose_parent_exit: the default parameters are restored.
EtxChooseParentExit ==
    /\ etx_ctx = EtxCtxFast
    /\ etx_ctx' = EtxCtxDefault
    /\ etx_hist' = [etx_hist EXCEPT !.op = "restore", !.loss = FALSE]
    /\ UNCHANGED ws_etx
    /\ EtxFrame

\* One tick of the clock while no timer of the estimator is due.
EtxTick ==
    /\ ws_etx.timer_compute > 0 \/ ws_etx.timer_outdated > 0
    /\ ws_etx.timer_compute # 0 /\ ws_etx.timer_outdated # 0
    /\ ws_etx' = [ws_etx EXCEPT
                    !.timer_compute = IF @ > 0 THEN @ - 1 ELSE @,
                    !.timer_outdated = IF @ > 0 THEN @ - 1 ELSE @]
    /\ etx_hist' = [etx_hist EXCEPT !.op = "tick", !.loss = FALSE, !.age = @ + 1]
    /\ UNCHANGED etx_ctx
    /\ EtxFrame

NextEtx ==
    \/ EtxUpdate \/ EtxTimeoutCompute \/ EtxTimeoutOutdated
    \/ EtxChooseParentEnter \/ EtxChooseParentExit \/ EtxTick

(***************************************************************************)
(* Properties of the ETX estimator                                         *)
(***************************************************************************)
EtxInRange(x) ==
    /\ ~isnan(x)
    /\ ~RatLess(x, <<EtxScale, 1>>)
    /\ ~RatLess(<<WS_ETX_MAX, 1>>, x)

\* The state ws_etx_reset leaves an estimator in
EtxResetState(e) ==
    /\ e.timer_compute = -1 /\ e.timer_outdated = -1
    /\ isnan(e.etx)
    /\ e.tx_cnt = 0 /\ e.ack_cnt = 0 /\ e.tx_req_cnt = 0 /\ e.compute_cnt = 0

\* C38: ws_etx_reset leaves both timers stopped, ETX NaN and the four
\* counters zero; from that state no timer callback of the estimator runs
\* and the estimator changes only by ws_etx_update; the first computation
\* after a reset has compute_cnt 1 and sets ETX to the raw value of its
\* epoch; a reset of an estimator in the reset state changes nothing.
C38_Reset ==
    /\ [](etx_hist.op = "reset" => EtxResetState(ws_etx))
    /\ [][EtxResetState(ws_etx) =>
            /\ etx_hist'.op \notin {"computed", "probe", "early", "outdated"}
            /\ ws_etx' # ws_etx => etx_hist'.op = "update"
            /\ etx_hist'.op = "reset" => ws_etx' = ws_etx]_vars
    /\ [][(etx_hist'.op = "computed" /\ etx_hist'.n = 1) =>
            /\ ws_etx'.compute_cnt = 1
            /\ ws_etx'.etx = EtxRaw(ws_etx.tx_cnt, ws_etx.ack_cnt)]_vars

\* The estimator has just been reset after frames had been counted for it.
C38_Witness ==
    /\ etx_hist.op = "reset"
    /\ etx_hist.updates > 0
    /\ EtxResetState(ws_etx)

\* C9 (as amended): when every ws_etx_update call counts at least one
\* transmission attempt, ETX is NaN before the first computation and in
\* [128, 1024] after every computation.
C9_EtxRange ==
    etx_hist.inputs_ok =>
        /\ etx_hist.n = 0 => isnan(ws_etx.etx)
        /\ etx_hist.n > 0 => EtxInRange(ws_etx.etx)

\* Two computations, the second blending a capped raw value into ETX 128.
C9_Witness ==
    /\ etx_hist.inputs_ok /\ etx_hist.op = "computed" /\ etx_hist.n = 2
    /\ ws_etx.etx = <<576, 1>>

\* C9 as first stated: for any tx_count and ack.
C9_Original ==
    /\ etx_hist.n = 0 => isnan(ws_etx.etx)
    /\ etx_hist.n > 0 => EtxInRange(ws_etx.etx)

\* C10: at every point, ETX is NaN exactly when compute_cnt is 0.
C10_NanIffNoCompute ==
    isnan(ws_etx.etx) <=> ws_etx.compute_cnt = 0

\* An estimator that had computed has been reset.
C10_Witness ==
    /\ etx_hist.op = "reset" /\ etx_hist.updates > 0
    /\ isnan(ws_etx.etx) /\ ws_etx.compute_cnt = 0
    /\ ws_etx.timer_compute = -1


\* C11 (as amended): when a computation epoch has ack_cnt = 0 and its
\* computation is the first since init or reset, ETX equals 1024 after it.
C11_TotalLossFirst ==
    (etx_hist.op = "computed" /\ etx_hist.loss /\ etx_hist.n = 1)
        => ws_etx.etx = <<WS_ETX_MAX, 1>>

\* A first computation on an epoch without any acknowledgement.
C11_Witness ==
    /\ etx_hist.op = "computed" /\ etx_hist.loss /\ etx_hist.n = 1
    /\ etx_hist.updates > 0
    /\ ws_etx.etx = <<WS_ETX_MAX, 1>> /\ ws_etx.compute_cnt = 1

\* C11 as first stated: also for a later computation.
C11_Original ==
    (etx_hist.op = "computed" /\ etx_hist.loss)
        => ws_etx.etx = <<WS_ETX_MAX, 1>>

\* The compute timer fires in this step while the epoch condition is not met.
EtxFiredEarly ==
    /\ ws_etx.timer_compute = 0
    /\ etx_hist'.op \in {"computed", "probe", "early"}
    /\ ~EtxEpoch(etx_ctx, ws_etx)

\* The handler returned without computing and without resetting a counter.
EtxNothingComputed ==
    /\ ws_etx'.etx = ws_etx.etx
    /\ ws_etx'.compute_cnt = ws_etx.compute_cnt
    /\ ws_etx'.tx_cnt = ws_etx.tx_cnt
    /\ ws_etx'.ack_cnt = ws_etx.ack_cnt
    /\ ws_etx'.tx_req_cnt = ws_etx.tx_req_cnt
    /\ ws_etx'.timer_outdated = ws_etx.timer_outdated

\* C24 (as amended): when the compute timer fires and the epoch condition
\* is not met, the handler returns without computing and without resetting
\* tx_cnt, ack_cnt or tx_req_cnt, and the "outdated" callback is invoked
\* exactly when the outdated timer is not running.
C24_EarlyExpiry ==
    [][ EtxFiredEarly =>
          /\ EtxNothingComputed
          /\ etx_hist'.op = (IF ws_etx.timer_outdated = -1 THEN "probe" ELSE "early")
      ]_vars

\* The compute timer fired one delay after a computation, with one request
\* counted and the outdated timer still running: no callback, counters kept.
C24_Witness ==
    /\ etx_hist.op = "early"
    /\ ws_etx.tx_req_cnt = 1 /\ ws_etx.tx_cnt = 9
    /\ ws_etx.timer_outdated > 0
    /\ ws_etx.timer_compute = -1
    /\ ws_etx.compute_cnt = 1

\* C24 as stated: the callback is invoked at every such expiry.
C24_Original ==
    [][ EtxFiredEarly => (EtxNothingComputed /\ etx_hist'.op = "probe") ]_vars

\* The compute timer fires in this step.
EtxFired ==
    /\ ws_etx.timer_compute = 0
    /\ etx_hist'.op \in {"computed", "probe", "early"}

\* C25 (as amended): a computation other than the first since init/reset
\* happens only when at least update_min_tx_req_cnt requests have
\* accumulated since the previous one and at least the update_min_delay_ms
\* in force at the previous one has elapsed since it; the first expiry of
\* the compute timer after init/reset computes whatever the request count.
\* etx_hist.age is the time since the previous computation, etx_hist.delay
\* the update_min_delay it armed the timer with.
C25_EpochGate ==
    [][ EtxFired =>
          IF etx_hist.n = 0 THEN etx_hist'.op = "computed"
          ELSE etx_hist'.op = "computed" =>
                  /\ ws_etx.tx_req_cnt >= etx_ctx.update_min_tx_req_cnt
                  /\ etx_hist.age >= etx_hist.delay
      ]_vars

\* A second computation under the default parameters, one delay after the
\* first and with the minimum of requests counted since.
C25_Witness ==
    /\ etx_hist.op = "computed" /\ etx_hist.n = 2
    /\ etx_ctx = EtxCtxDefault
    /\ etx_hist.updates = 1 + EtxMinTxReq
    /\ etx_hist.delay = EtxMinDelayTicks
    /\ ws_etx.timer_outdated = EtxRefreshTicks

\* C25 as stated, with the update_min_delay_ms of the context as it is when
\* the computation happens.
C25_Original ==
    [][ EtxFired =>
          IF etx_hist.n = 0 THEN etx_hist'.op = "computed"
          ELSE etx_hist'.op = "computed" =>
                  /\ ws_etx.tx_req_cnt >= etx_ctx.update_min_tx_req_cnt
                  /\ etx_hist.age >= etx_ctx.update_min_delay
      ]_vars

\* C26: ws_etx_update adds one to tx_req_cnt, tx_count to tx_cnt and the ack
\* flag to ack_cnt and starts the compute timer with zero delay exactly when
\* that timer is stopped; etx, compute_cnt, the outdated timer and the
\* deadline of a running compute timer stay as they are, and no callback
\* runs within the call.
C26_UpdateFrame ==
    [][ etx_hist'.op = "update" =>
          /\ ws_etx'.tx_req_cnt = ws_etx.tx_req_cnt + 1
          /\ ws_etx'.tx_cnt - ws_etx.tx_cnt \in TxCounts
          /\ ws_etx'.ack_cnt - ws_etx.ack_cnt \in {0, 1}
          /\ ws_etx'.timer_compute =
                (IF ws_etx.timer_compute = -1 THEN 0 ELSE ws_etx.timer_compute)
          /\ ws_etx'.etx = ws_etx.etx
          /\ ws_etx'.compute_cnt = ws_etx.compute_cnt
          /\ ws_etx'.timer_outdated = ws_etx.timer_outdated
          /\ etx_hist'.n = etx_hist.n
          /\ etx_ctx' = etx_ctx
      ]_vars

\* A confirmation with nine attempts and an acknowledgement arrived while
\* the compute timer was running with a full delay ahead.
C26_Witness ==
    /\ etx_hist.op = "update"
    /\ ws_etx.timer_compute = EtxMinDelayTicks
    /\ ws_etx.timer_outdated = EtxRefreshTicks
    /\ ws_etx.tx_req_cnt = 1 /\ ws_etx.tx_cnt = 9 /\ ws_etx.ack_cnt = 1
    /\ ws_etx.compute_cnt = 1

(***************************************************************************)
(* RPL MRHOF parent selection (rpl_mrhof.c). Costs are exact rationals.    *)
(***************************************************************************)
max_link_metric == 512
max_path_cost == 32768
parent_switch_threshold == 192
RPL_RANK_INFINITE == 65535
UINT16_MAX == 65535

\* MinHopRankIncrease and MaxRankIncrease of the DODAG configuration
RplDioConfig == [min_hop_rank_inc |-> 128, max_rank_inc |-> 0]

RatAdd(x, y) == Rat(x[1] * y[2] + y[1] * x[2], x[2] * y[2])
RatInt(n) == <<n, 1>>
\* conversion of a non-negative float to an integer type
RatTrunc(x) == x[1] \div x[2]

\* 16bit addition with saturation
add16sat(a, b) ==
    LET sum == (a + b) % UINT16_MOD
    IN IF sum < a THEN UINT16_MAX ELSE sum

\* DAGRank(rank) = floor(rank / MinHopRankIncrease)
rpl_dag_rank(min_hop_rank_inc, rank) == rank \div min_hop_rank_inc

\* Index of the neighbor with is_parent, 0 when there is none
rpl_neigh_pref_parent(table) ==
    IF \E i \in 1..Len(table) : table[i].rpl /\ table[i].is_parent
    THEN CHOOSE i \in 1..Len(table) :
            /\ table[i].rpl /\ table[i].is_parent
            /\ \A j \in 1..(i - 1) : ~(table[j].rpl /\ table[j].is_parent)
    ELSE 0

rpl_mrhof_etx(n) == n.etx

rpl_mrhof_path_cost(n) ==
    IF isnan(rpl_mrhof_etx(n)) THEN RatInt(max_path_cost)
    ELSE RatAdd(rpl_mrhof_etx(n), RatInt(n.rank))

\* A variant with the upper threshold alone.
rpl_mrhof_candidate_rsl_is_valid_NoHysteresis(n) == n.rsl = "high"

\* n.rsl is "none" (no outbound RSL yet), "high" (both RSL above the upper
\* threshold), "low" (both below the lower threshold) or "mid".
rpl_mrhof_candidate_rsl_is_valid(n) ==
    IF n.rsl = "none" THEN FALSE
    ELSE IF ~n.rsl_valid THEN n.rsl = "high"
    ELSE n.rsl # "low"

rpl_mrhof_get_rank_limit(mrhof, max_rank_inc, min_hop_rank_inc) ==
    LET max_dag_rank == rpl_dag_rank(min_hop_rank_inc,
                            add16sat(mrhof.lowest_advertised_rank, max_rank_inc))
        rank_limit == (max_dag_rank + 1) * min_hop_rank_inc
    IN IF rank_limit >= UINT16_MAX THEN RPL_RANK_INFINITE ELSE rank_limit - 1

rpl_mrhof_path_rank(n) ==
    RatTrunc(RatMin(rpl_mrhof_path_cost(n), RatInt(UINT16_MAX)))

\* The body of rpl_mrhof_rank for the parent n and the DODAG configuration
\* of its DIO: each MAX() is evaluated in int and stored in uint16_t rank.
RplRank(n, min_hop_rank_inc, max_rank_inc) ==
    LET rank1 == rpl_mrhof_path_rank(n)
        rank2 == Max(rank1, min_hop_rank_inc * (n.rank \div min_hop_rank_inc + 1))
                    % UINT16_MOD
        rank3 == Max(rank2, rpl_mrhof_path_rank(n) - max_rank_inc) % UINT16_MOD
    IN rank3

\* rpl_mrhof_rank(ipv6, single_parent) with single_parent = n
rpl_mrhof_rank(n) ==
    RplRank(n, RplDioConfig.min_hop_rank_inc, RplDioConfig.max_rank_inc)

\* A variant that tests the deny timer before the link metric.
rpl_mrhof_check_candidate_DenyFirst(n, rank_limit) ==
    LET valid == rpl_mrhof_candidate_rsl_is_valid(n)
        n1 == [n EXCEPT !.rsl_valid = valid]
    IN IF isnan(rpl_mrhof_etx(n)) THEN [discard |-> "etx", n |-> n]
       ELSE IF ~valid THEN [discard |-> "rsl", n |-> n1]
       ELSE IF n.deny # -1 THEN [discard |-> "denied", n |-> n1]
       ELSE IF RatLess(RatInt(max_link_metric), rpl_mrhof_etx(n))
            THEN [discard |-> "etx", n |-> n1]
       ELSE IF rpl_mrhof_rank(n) > rank_limit THEN [discard |-> "rank", n |-> n1]
       ELSE [discard |-> "none", n |-> n1]

\* rpl_mrhof_check_candidate: the reason to discard ("none" for NULL) and
\* the neighbor with its rsl_valid flag as the check leaves it
rpl_mrhof_check_candidate(n, rank_limit) ==
    LET valid == rpl_mrhof_candidate_rsl_is_valid(n)
        n1 == [n EXCEPT !.rsl_valid = valid]
    IN IF isnan(rpl_mrhof_etx(n)) THEN [discard |-> "etx", n |-> n]
       ELSE IF ~valid THEN [discard |-> "rsl", n |-> n1]
       ELSE IF RatLess(RatInt(max_link_metric), rpl_mrhof_etx(n))
            THEN [discard |-> "etx", n |-> n1]
       ELSE IF n.deny # -1 THEN [discard |-> "denied", n |-> n1]
       ELSE IF rpl_mrhof_rank(n) > rank_limit THEN [discard |-> "rank", n |-> n1]
       ELSE [discard |-> "none", n |-> n1]

RECURSIVE RplScan(_, _, _, _, _)
\* The SLIST_FOREACH of rpl_mrhof_select_parent from neighbor i on:
\* [table, pref_path_cost, pref_parent_new]
RplScan(table, i, rank_limit, pref_path_cost, pref_parent_new) ==
    IF i > Len(table)
    THEN [table |-> table, pref_path_cost |-> pref_path_cost,
          pref_parent_new |-> pref_parent_new]
    ELSE IF ~table[i].rpl
    THEN RplScan(table, i + 1, rank_limit, pref_path_cost, pref_parent_new)
    ELSE LET path_cost == rpl_mrhof_path_cost(table[i])
             c == rpl_mrhof_check_candidate(table[i], rank_limit)
             table1 == [table EXCEPT ![i] = c.n]
         IN IF c.discard # "none" \/ ~RatLess(path_cost, pref_path_cost)
            THEN RplScan(table1, i + 1, rank_limit, pref_path_cost, pref_parent_new)
            ELSE RplScan(table1, i + 1, rank_limit, path_cost, i)

\* The end of a variant that forgets to clear the old parent's flag.
RplSetParent_KeepOld(table, cur, new) ==
    IF new # 0 THEN [table EXCEPT ![new].is_parent = TRUE] ELSE table

\* The end of rpl_mrhof_select_parent: is_parent moves from cur to new
RplSetParent(table, cur, new) ==
    LET t1 == IF cur # 0 THEN [table EXCEPT ![cur].is_parent = FALSE] ELSE table
    IN IF new # 0 THEN [t1 EXCEPT ![new].is_parent = TRUE] ELSE t1

\* A variant of the hysteresis test without the threshold.
RplKeepsCurrent_NoThreshold(cur_min_path_cost, pref_path_cost) ==
    /\ RatLess(cur_min_path_cost, RatInt(max_path_cost))
    /\ RatLess(pref_path_cost, RatInt(max_path_cost))
    /\ RatLess(cur_min_path_cost, pref_path_cost)

\* A variant of the hysteresis test with >= for >.
RplKeepsCurrent_Geq(cur_min_path_cost, pref_path_cost) ==
    /\ RatLess(cur_min_path_cost, RatInt(max_path_cost))
    /\ RatLess(pref_path_cost, RatInt(max_path_cost))
    /\ ~RatLess(RatAdd(pref_path_cost, RatInt(parent_switch_threshold)),
                cur_min_path_cost)

\* PARENT_SWITCH_THRESHOLD test of rpl_mrhof_select_parent
RplKeepsCurrent(cur_min_path_cost, pref_path_cost) ==
    /\ RatLess(cur_min_path_cost, RatInt(max_path_cost))
    /\ RatLess(pref_path_cost, RatInt(max_path_cost))
    /\ RatLess(cur_min_path_cost,
               RatAdd(pref_path_cost, RatInt(parent_switch_threshold)))

\* A variant that takes the path cost of the current parent whether it is
\* denied or not.
rpl_mrhof_select_parent_IgnoreDeny(table, mrhof) ==
    LET pref_parent_cur == rpl_neigh_pref_parent(table)
        cur_min_path_cost ==
            IF pref_parent_cur # 0
            THEN rpl_mrhof_path_cost(table[pref_parent_cur])
            ELSE RatInt(max_path_cost)
        rank_limit ==
            IF pref_parent_cur # 0
            THEN rpl_mrhof_get_rank_limit(mrhof, RplDioConfig.max_rank_inc,
                                          RplDioConfig.min_hop_rank_inc)
            ELSE RPL_RANK_INFINITE
        scan == RplScan(table, 1, rank_limit, RatInt(max_path_cost), 0)
    IN IF scan.pref_parent_new = pref_parent_cur
          /\ RatLess(cur_min_path_cost, RatInt(max_path_cost))
       THEN [table |-> scan.table, ret |-> pref_parent_cur, bug |-> FALSE]
       ELSE IF RplKeepsCurrent(cur_min_path_cost, scan.pref_path_cost)
       THEN [table |-> scan.table, ret |-> pref_parent_cur,
             bug |-> pref_parent_cur = 0]
       ELSE [table |-> RplSetParent(scan.table, pref_parent_cur,
                                    scan.pref_parent_new),
             ret |-> scan.pref_parent_new, bug |-> FALSE]

\* rpl_mrhof_select_parent: [table, ret, bug]; ret is the index of the
\* neighbor returned (0 for NULL), bug tells that a BUG_ON fired
rpl_mrhof_select_parent(table, mrhof) ==
    LET pref_parent_cur == rpl_neigh_pref_parent(table)
        cur_min_path_cost ==
            IF pref_parent_cur # 0 /\ table[pref_parent_cur].deny = -1
            THEN rpl_mrhof_path_cost(table[pref_parent_cur])
            ELSE RatInt(max_path_cost)
        rank_limit ==
            IF pref_parent_cur # 0
            THEN rpl_mrhof_get_rank_limit(mrhof, RplDioConfig.max_rank_inc,
                                          RplDioConfig.min_hop_rank_inc)
            ELSE RPL_RANK_INFINITE
        scan == RplScan(table, 1, rank_limit, RatInt(max_path_cost), 0)
    IN IF scan.pref_parent_new = pref_parent_cur
          /\ RatLess(cur_min_path_cost, RatInt(max_path_cost))
       THEN [table |-> scan.table, ret |-> pref_parent_cur, bug |-> FALSE]
       ELSE IF RplKeepsCurrent(cur_min_path_cost, scan.pref_path_cost)
       THEN [table |-> scan.table, ret |-> pref_parent_cur,
             bug |-> pref_parent_cur = 0]
       ELSE [table |-> RplSetParent(scan.table, pref_parent_cur,
                                    scan.pref_parent_new),
             ret |-> scan.pref_parent_new, bug |-> FALSE]

(***************************************************************************)
(* Neighbor tables and the actions on them                                 *)
(***************************************************************************)
\* A selection run is given a cache of this many neighbors
RplNeighMax == 3
\* the neighbor cache of the running wsrd holds this many neighbors
RplCacheMax == 2
\* the deny period of a neighbor in clock ticks
RplDenyTicks == 1

\* A neighbor without RPL data (nce->rpl == NULL)
RplNoRpl ==
    [rpl |-> FALSE, etx |-> NaN, rank |-> RPL_RANK_INFINITE, rsl |-> "none",
     rsl_valid |-> FALSE, deny |-> -1, is_parent |-> FALSE]

\* Link and DIO attributes of an admissible neighbor: ETX 128 or 320 and a
\* rank near the root or near max_path_cost
RplGoodLinks ==
    {[etx |-> RatInt(e), rank |-> r, rsl |-> "high", rsl_valid |-> TRUE] :
        e \in {128, 320}, r \in {256, 384, 32700}}

\* Attributes that fail one admission test, or sit between the RSL thresholds
RplOtherLinks ==
    {[etx |-> NaN, rank |-> 256, rsl |-> "high", rsl_valid |-> TRUE],
     [etx |-> RatInt(600), rank |-> 256, rsl |-> "high", rsl_valid |-> TRUE],
     [etx |-> RatInt(128), rank |-> 256, rsl |-> "low", rsl_valid |-> TRUE],
     [etx |-> RatInt(128), rank |-> 256, rsl |-> "mid", rsl_valid |-> FALSE],
     [etx |-> RatInt(128), rank |-> 256, rsl |-> "mid", rsl_valid |-> TRUE]}

\* A neighbor with RPL data
RplNeighOf(link, deny, is_parent) ==
    [rpl |-> TRUE, etx |-> link.etx, rank |-> link.rank, rsl |-> link.rsl,
     rsl_valid |-> link.rsl_valid, deny |-> deny, is_parent |-> is_parent]

\* The neighbors a cache can hold, none of them the parent
RplNeighs ==
    {RplNoRpl}
    \cup {RplNeighOf(l, d, FALSE) : l \in RplGoodLinks, d \in {-1, RplDenyTicks}}
    \cup {RplNeighOf(l, -1, FALSE) : l \in RplOtherLinks}

\* The caches of RplNeighMax neighbors with at most one parent
RplTables ==
    LET drawn == {tp \in [1..RplNeighMax -> RplNeighs] \X (0..RplNeighMax) :
                    tp[2] = 0 \/ tp[1][tp[2]].rpl}
    IN {[i \in 1..RplNeighMax |->
            IF i = tp[2] THEN [tp[1][i] EXCEPT !.is_parent = TRUE] ELSE tp[1][i]] :
        tp \in drawn}

\* The lowest rank advertised so far: none yet, or rank 384
RplAdvertised == {RPL_RANK_INFINITE, 384}

RplNoHist == [op |-> "init", before |-> <<>>, ret |-> 0]

\* wsrd starts with an empty neighbor cache and RPL stopped
InitRpl ==
    /\ rpl_neigh = [i \in 1..RplCacheMax |-> RplNoRpl]
    /\ rpl_mrhof = [lowest_advertised_rank |-> RPL_RANK_INFINITE, fd_open |-> FALSE]
    /\ rpl_hist = RplNoHist

\* Any neighbor cache, before one run of the parent selection
InitRplDrawn ==
    /\ rpl_neigh \in RplTables
    /\ rpl_mrhof \in {[lowest_advertised_rank |-> r, fd_open |-> TRUE] :
                        r \in RplAdvertised}
    /\ rpl_hist = RplNoHist

\* One run of rpl_mrhof_select_parent on the drawn cache
RplSelect ==
    /\ rpl_hist.op = "init"
    /\ LET r == rpl_mrhof_select_parent(rpl_neigh, rpl_mrhof)
       IN /\ ~r.bug
          /\ rpl_neigh' = r.table
          /\ rpl_hist' = [op |-> "select", before |-> rpl_neigh, ret |-> r.ret]
    /\ UNCHANGED rpl_mrhof
    /\ RplFrame

NextRplSelect == RplSelect

\* One neighbor with RPL data, every combination of ETX (unknown, good,
\* above max_link_metric), advertised rank, RSL level, rsl_valid flag and
\* deny timer; a neighbor without an RSL measure has never been found valid
RplCheckNeighs ==
    {n \in [rpl : {TRUE}, etx : {NaN, RatInt(128), RatInt(600)},
            rank : {256, 32700, 65500}, rsl : {"none", "high", "mid", "low"},
            rsl_valid : BOOLEAN, deny : {-1, RplDenyTicks},
            is_parent : {FALSE}] :
        n.rsl = "none" => ~n.rsl_valid}

\* A cache of one such neighbor
InitRplCheck ==
    /\ rpl_neigh \in {<<n>> : n \in RplCheckNeighs}
    /\ rpl_mrhof \in {[lowest_advertised_rank |-> r, fd_open |-> TRUE] :
                        r \in RplAdvertised}
    /\ rpl_hist = RplNoHist

\* rpl_mrhof_check_candidate on the neighbor, called by
\* rpl_mrhof_has_candidates (RPL_RANK_INFINITE) or by the selection loop
RplCheckCandidate ==
    /\ \E rank_limit \in {RPL_RANK_INFINITE,
                          rpl_mrhof_get_rank_limit(rpl_mrhof,
                                                   RplDioConfig.max_rank_inc,
                                                   RplDioConfig.min_hop_rank_inc)} :
        \E c \in {rpl_mrhof_check_candidate(rpl_neigh[1], rank_limit)} :
            /\ rpl_neigh' = <<c.n>>
            /\ rpl_hist' = [op |-> "check", before |-> rpl_neigh, ret |-> 0,
                            discard |-> c.discard, rank_limit |-> rank_limit]
    /\ UNCHANGED rpl_mrhof
    /\ RplFrame

\* The RSL averages of the neighbor move to another level.
RplRslChange ==
    /\ \E l \in {"high", "mid", "low"} :
        /\ l # rpl_neigh[1].rsl
        /\ rpl_neigh' = <<[rpl_neigh[1] EXCEPT !.rsl = l]>>
    /\ rpl_hist' = [op |-> "rsl", before |-> rpl_neigh, ret |-> 0]
    /\ UNCHANGED rpl_mrhof
    /\ RplFrame

\* MinHopRankIncrease and MaxRankIncrease values a DIO may carry
RplMinHopRankIncs == {1, 128, 256}
RplMaxRankIncs == {0, 2048}

\* rpl_mrhof_rank(ipv6, single_parent): with single_parent NULL (0) the
\* preferred parent is used, and the cache has none; otherwise the rank is
\* computed as if the neighbor was the only parent.
RplComputeRank ==
    /\ \E single_parent \in {0, 1} :
       \E min_hop_rank_inc \in RplMinHopRankIncs :
       \E max_rank_inc \in RplMaxRankIncs :
        LET nce == IF single_parent # 0 THEN single_parent
                   ELSE rpl_neigh_pref_parent(rpl_neigh)
        IN rpl_hist' = [op |-> "rank", before |-> rpl_neigh,
                        ret |-> IF nce = 0 THEN RPL_RANK_INFINITE
                                ELSE RplRank(rpl_neigh[nce], min_hop_rank_inc,
                                             max_rank_inc),
                        nce |-> nce,
                        min_hop_rank_inc |-> min_hop_rank_inc,
                        max_rank_inc |-> max_rank_inc]
    /\ UNCHANGED <<rpl_neigh, rpl_mrhof>>
    /\ RplFrame

NextRplCheck == RplCheckCandidate \/ RplRslChange \/ RplComputeRank

RECURSIVE RplHasCandidatesFrom(_, _)
\* The SLIST_FOREACH of rpl_mrhof_has_candidates from neighbor i on
RplHasCandidatesFrom(table, i) ==
    IF i > Len(table) THEN [ret |-> FALSE, table |-> table]
    ELSE IF ~table[i].rpl THEN RplHasCandidatesFrom(table, i + 1)
    ELSE LET c == rpl_mrhof_check_candidate(table[i], RPL_RANK_INFINITE)
             table1 == [table EXCEPT ![i] = c.n]
         IN IF c.discard = "none" THEN [ret |-> TRUE, table |-> table1]
            ELSE RplHasCandidatesFrom(table1, i + 1)

\* A variant that takes any neighbor with RPL data for a candidate.
rpl_mrhof_has_candidates_AnyRpl(table) ==
    [ret |-> \E i \in 1..Len(table) : table[i].rpl, table |-> table]

\* rpl_mrhof_has_candidates: [ret, table]
rpl_mrhof_has_candidates(table) == RplHasCandidatesFrom(table, 1)

\* wsrd_on_pref_parent_change(mrhof, neigh): the events handed to
\* join_state_transition, in order, and the cache as the handler leaves it
wsrd_on_pref_parent_change(table, neigh) ==
    IF neigh # 0
    THEN [events |-> <<"RPL_NEW_PREF_PARENT">>, table |-> table]
    ELSE LET c == rpl_mrhof_has_candidates(table)
         IN [events |-> IF c.ret THEN <<"RPL_PREF_LOST">>
                        ELSE <<"RPL_NO_CANDIDATE">>,
             table |-> c.table]

\* rpl_update_parent: a selection run; a parent other than the one before
\* is notified through on_pref_parent_change, and the rank of the parent
\* selected is advertised in the next DIO
RplUpdateParent(table, mrhof, op) ==
    LET r == rpl_mrhof_select_parent(table, mrhof)
        advertised == IF r.ret = 0 THEN RPL_RANK_INFINITE
                      ELSE rpl_mrhof_rank(r.table[r.ret])
        h == IF r.ret # rpl_neigh_pref_parent(table)
             THEN wsrd_on_pref_parent_change(r.table, r.ret)
             ELSE [events |-> <<>>, table |-> r.table]
    IN /\ ~r.bug
       /\ rpl_neigh' = h.table
       /\ rpl_mrhof' = [mrhof EXCEPT !.lowest_advertised_rank =
                                        Min(@, advertised)]
       /\ rpl_hist' = [op |-> op, before |-> <<>>, ret |-> r.ret,
                       events |-> h.events]

\* The link attributes that DIOs, RSL measures and ETX computations report
\* while wsrd runs: those of rank 256 with a high or a low RSL
RplLinks ==
    {l \in RplGoodLinks \cup RplOtherLinks :
        l.rank = 256 /\ l.rsl # "mid" /\ ~RatLess(RatInt(max_link_metric), l.etx)}

\* join_state_4_choose_parent_enter: rpl_start
RplStart ==
    /\ ~rpl_mrhof.fd_open
    /\ rpl_mrhof' = [lowest_advertised_rank |-> RPL_RANK_INFINITE, fd_open |-> TRUE]
    /\ rpl_hist' = [op |-> "start", before |-> <<>>, ret |-> 0]
    /\ UNCHANGED rpl_neigh
    /\ RplFrame

\* A DIO or an ETX update of neighbor i (wsrd_on_etx_update), then
\* rpl_update_parent
RplLinkChange ==
    \E i \in 1..RplCacheMax, l \in RplLinks :
        /\ rpl_mrhof.fd_open
        /\ LET old == rpl_neigh[i]
               n == [old EXCEPT !.rpl = TRUE, !.etx = l.etx, !.rank = l.rank,
                                !.rsl = l.rsl]
           IN RplUpdateParent([rpl_neigh EXCEPT ![i] = n], rpl_mrhof, "link")
        /\ RplFrame

\* wsrd_on_dhcp_txalg_failure, wsrd_eapol_on_failure: rpl_neigh_deny(parent)
\* starts the deny timer of the parent and selects again
RplDeny ==
    /\ rpl_mrhof.fd_open
    /\ LET parent == rpl_neigh_pref_parent(rpl_neigh)
       IN /\ parent # 0
          /\ RplUpdateParent([rpl_neigh EXCEPT ![parent].deny = RplDenyTicks],
                             rpl_mrhof, "deny")
    /\ RplFrame

\* The deny timer of neighbor i expires: its RPL data is deleted
RplDenyExpire ==
    \E i \in 1..RplCacheMax :
        /\ rpl_neigh[i].rpl /\ rpl_neigh[i].deny = 0
        /\ rpl_neigh' = [rpl_neigh EXCEPT ![i] = RplNoRpl]
        /\ rpl_hist' = [op |-> "expire", before |-> <<>>, ret |-> 0]
        /\ UNCHANGED rpl_mrhof
        /\ RplFrame

\* join_state_disconnecting_enter; has_addr tells whether DHCP got an address
RplDisconnectingEnter ==
    \E has_addr \in BOOLEAN :
        /\ rpl_mrhof.fd_open
        /\ LET parent == rpl_neigh_pref_parent(rpl_neigh)
           IN rpl_neigh' = IF parent = 0 \/ ~has_addr THEN rpl_neigh
                           ELSE [rpl_neigh EXCEPT ![parent].is_parent = FALSE]
        /\ rpl_mrhof' = [rpl_mrhof EXCEPT !.fd_open = FALSE]
        /\ rpl_hist' = [op |-> "disconnecting", before |-> <<>>, ret |-> 0]
        /\ RplFrame

\* join_state_1_enter, join_state_3_reconnect_enter: ipv6_neigh_clean, rpl_stop
RplNeighClean ==
    /\ \E i \in 1..RplCacheMax : rpl_neigh[i].rpl
    /\ rpl_neigh' = [i \in 1..RplCacheMax |-> RplNoRpl]
    /\ rpl_mrhof' = [rpl_mrhof EXCEPT !.fd_open = FALSE]
    /\ rpl_hist' = [op |-> "clean", before |-> <<>>, ret |-> 0]
    /\ RplFrame

\* One tick of the clock on the running deny timers
RplTick ==
    /\ \E i \in 1..RplCacheMax : rpl_neigh[i].deny > 0
    /\ \A i \in 1..RplCacheMax : rpl_neigh[i].deny # 0
    /\ rpl_neigh' = [i \in 1..RplCacheMax |->
                        IF rpl_neigh[i].deny > 0
                        THEN [rpl_neigh[i] EXCEPT !.deny = @ - 1]
                        ELSE rpl_neigh[i]]
    /\ rpl_hist' = [op |-> "tick", before |-> <<>>, ret |-> 0]
    /\ UNCHANGED rpl_mrhof
    /\ RplFrame

NextRpl ==
    \/ RplStart
    \/ RplLinkChange
    \/ RplDeny
    \/ RplDenyExpire
    \/ RplDisconnectingEnter
    \/ RplNeighClean
    \/ RplTick

(***************************************************************************)
(* Properties of the parent selection                                      *)
(***************************************************************************)
\* The neighbors of a cache that pass the admission filter of a selection run
RplAdmissible(table, mrhof) ==
    LET cur == rpl_neigh_pref_parent(table)
        rank_limit ==
            IF cur # 0
            THEN rpl_mrhof_get_rank_limit(mrhof, RplDioConfig.max_rank_inc,
                                          RplDioConfig.min_hop_rank_inc)
            ELSE RPL_RANK_INFINITE
    IN {i \in 1..Len(table) :
            /\ table[i].rpl
            /\ rpl_mrhof_check_candidate(table[i], rank_limit).discard = "none"}

\* i is a lowest-cost neighbor among those of set adm
RplLowest(table, adm, i) ==
    /\ i \in adm
    /\ \A j \in adm : ~RatLess(rpl_mrhof_path_cost(table[j]),
                               rpl_mrhof_path_cost(table[i]))

RplParents(table) == {i \in 1..Len(table) : table[i].rpl /\ table[i].is_parent}

\* The selection ran on a cache whose parent B is not denied and costs less
\* than max_path_cost, and the lowest-cost admissible candidate A costs
\* less than B, by less than parent_switch_threshold
RplHysteresisCase ==
    /\ rpl_hist.op = "select"
    /\ LET t == rpl_hist.before
           B == rpl_neigh_pref_parent(t)
       IN /\ B # 0
          /\ t[B].deny = -1
          /\ RatLess(rpl_mrhof_path_cost(t[B]), RatInt(max_path_cost))
          /\ \E A \in RplAdmissible(t, rpl_mrhof) :
                /\ RplLowest(t, RplAdmissible(t, rpl_mrhof), A)
                /\ RatLess(rpl_mrhof_path_cost(t[A]), rpl_mrhof_path_cost(t[B]))
                /\ RatLess(rpl_mrhof_path_cost(t[B]),
                           RatAdd(rpl_mrhof_path_cost(t[A]),
                                  RatInt(parent_switch_threshold)))

\* C6: when the parent B is not denied and costs less than max_path_cost and
\* the lowest-cost admissible candidate costs less than B by less than
\* parent_switch_threshold, rpl_mrhof_select_parent returns B and leaves
\* every is_parent flag as it was.
C6_HysteresisKeepsParent ==
    RplHysteresisCase =>
        /\ rpl_hist.ret = rpl_neigh_pref_parent(rpl_hist.before)
        /\ \A i \in 1..RplNeighMax :
                rpl_neigh[i].is_parent = rpl_hist.before[i].is_parent

\* The hysteresis case with the cheaper candidate ahead of the parent in the
\* cache, the parent kept
C6_Witness ==
    /\ RplHysteresisCase
    /\ rpl_hist.ret = 2
    /\ rpl_neigh[2].is_parent
    /\ rpl_mrhof_path_cost(rpl_neigh[1]) = RatInt(384)
    /\ rpl_mrhof_path_cost(rpl_neigh[2]) = RatInt(512)
    /\ rpl_hist.before[1].deny = -1

\* The selection ran on a cache with a parent, and the lowest-cost admissible
\* candidate costs less than the parent by at least parent_switch_threshold;
\* with bounded, the candidate also costs less than max_path_cost
RplSwitchCase(bounded) ==
    /\ rpl_hist.op = "select"
    /\ LET t == rpl_hist.before
           B == rpl_neigh_pref_parent(t)
       IN /\ B # 0
          /\ \E A \in RplAdmissible(t, rpl_mrhof) :
                /\ RplLowest(t, RplAdmissible(t, rpl_mrhof), A)
                /\ bounded => RatLess(rpl_mrhof_path_cost(t[A]),
                                      RatInt(max_path_cost))
                /\ ~RatLess(rpl_mrhof_path_cost(t[B]),
                            RatAdd(rpl_mrhof_path_cost(t[A]),
                                   RatInt(parent_switch_threshold)))

\* The parent is now a lowest-cost admissible candidate of the cache the
\* selection ran on, and it is the only neighbor with is_parent
RplSwitched ==
    LET t == rpl_hist.before
    IN /\ rpl_hist.ret # 0
       /\ rpl_hist.ret # rpl_neigh_pref_parent(t)
       /\ RplLowest(t, RplAdmissible(t, rpl_mrhof), rpl_hist.ret)
       /\ RplParents(rpl_neigh) = {rpl_hist.ret}

\* C7: when the lowest-cost admissible candidate costs less than
\* max_path_cost and less than the current parent by at least
\* parent_switch_threshold, rpl_mrhof_select_parent makes that candidate the
\* parent and exactly one neighbor has is_parent afterwards.
C7_SwitchToBest ==
    RplSwitchCase(TRUE) => RplSwitched

\* A switch at exactly parent_switch_threshold, from the parent at the head
\* of the cache to the last neighbor
C7_Witness ==
    /\ RplSwitchCase(TRUE)
    /\ RplSwitched
    /\ rpl_hist.before[1].is_parent
    /\ rpl_mrhof_path_cost(rpl_hist.before[1]) = RatInt(576)
    /\ rpl_hist.ret = RplNeighMax
    /\ rpl_mrhof_path_cost(rpl_neigh[RplNeighMax]) = RatInt(384)

\* C7 as stated, for every path cost of the candidate
C7_Original ==
    RplSwitchCase(FALSE) => RplSwitched

\* C20: the neighbor rpl_mrhof_select_parent returns passes the admission
\* filter of that run (ETX known, RSL valid, ETX not above max_link_metric,
\* no deny timer running, rank within the rank limit) and has a path cost
\* below max_path_cost, also when the current parent is kept by the
\* stability rule or by the parent_switch_threshold hysteresis.
C20_Original ==
    (rpl_hist.op = "select" /\ rpl_hist.ret # 0)
        => /\ rpl_hist.ret \in RplAdmissible(rpl_hist.before, rpl_mrhof)
           /\ RatLess(rpl_mrhof_path_cost(rpl_hist.before[rpl_hist.ret]),
                      RatInt(max_path_cost))

\* The first of the five admission conditions that fails for neighbor n,
\* 0 when all pass
RplFirstFailing(n, rank_limit) ==
    IF isnan(n.etx) THEN 1
    ELSE IF ~rpl_mrhof_candidate_rsl_is_valid(n) THEN 2
    ELSE IF RatLess(RatInt(max_link_metric), n.etx) THEN 3
    ELSE IF n.deny # -1 THEN 4
    ELSE IF rpl_mrhof_rank(n) > rank_limit THEN 5
    ELSE 0

\* The last step was a candidate check whose first failing condition is k.
RplChecked(k) ==
    /\ rpl_hist.op = "check"
    /\ RplFirstFailing(rpl_hist.before[1], rpl_hist.rank_limit) = k

\* C27 (as amended): rpl_mrhof_check_candidate tests (1) ETX unknown, (2)
\* the RSL hysteresis, (3) ETX above max_link_metric, (4) a running deny
\* timer, (5) the rank above the rank limit, in this order; the first
\* failing condition alone gives the reason, which is "etx" for (1) and for
\* (3), "rsl", "denied" and "rank" for the others, and the candidate is
\* admitted (NULL) only if all five pass.
C27_CheckOrder ==
    /\ RplChecked(0) => rpl_hist.discard = "none"
    /\ RplChecked(1) => rpl_hist.discard = "etx"
    /\ RplChecked(2) => rpl_hist.discard = "rsl"
    /\ RplChecked(3) => rpl_hist.discard = "etx"
    /\ RplChecked(4) => rpl_hist.discard = "denied"
    /\ RplChecked(5) => rpl_hist.discard = "rank"

\* A denied neighbor with a link above max_link_metric and a rank above the
\* limit was discarded for its link metric.
C27_Witness ==
    /\ RplChecked(3)
    /\ rpl_hist.before[1].deny # -1
    /\ rpl_mrhof_rank(rpl_hist.before[1]) > rpl_hist.rank_limit
    /\ rpl_hist.discard = "etx"

\* C27 as stated: the reasons of two different conditions always differ.
C27_Original ==
    /\ C27_CheckOrder
    /\ \A n \in RplCheckNeighs :
          (/\ rpl_hist.op = "check"
           /\ RplFirstFailing(rpl_hist.before[1], rpl_hist.rank_limit) # 0
           /\ RplFirstFailing(n, rpl_hist.rank_limit)
                \notin {0, RplFirstFailing(rpl_hist.before[1], rpl_hist.rank_limit)})
          => rpl_mrhof_check_candidate(n, rpl_hist.rank_limit).discard
                # rpl_hist.discard

\* C28: a neighbor that is not RSL-valid becomes valid only when both RSL
\* exceed DEVICE_MIN_SENS + CAND_PARENT_THRESHOLD + CAND_PARENT_HYSTERESIS
\* ("high"), a valid one becomes invalid only when both are below
\* DEVICE_MIN_SENS + CAND_PARENT_THRESHOLD - CAND_PARENT_HYSTERESIS ("low"),
\* and between the thresholds no candidate check changes rsl_valid; nothing
\* but a candidate check writes the flag.
C28_RslHysteresis ==
    /\ rpl_hist.op = "check" =>
          /\ (~rpl_hist.before[1].rsl_valid /\ rpl_neigh[1].rsl_valid)
                => rpl_hist.before[1].rsl = "high"
          /\ (rpl_hist.before[1].rsl_valid /\ ~rpl_neigh[1].rsl_valid)
                => rpl_hist.before[1].rsl = "low"
          /\ rpl_hist.before[1].rsl = "mid"
                => rpl_neigh[1].rsl_valid = rpl_hist.before[1].rsl_valid
    /\ rpl_hist.op = "rsl" =>
          rpl_neigh[1].rsl_valid = rpl_hist.before[1].rsl_valid

\* A valid neighbor whose RSL lies between the thresholds was checked and
\* admitted with its flag kept.
C28_Witness ==
    /\ rpl_hist.op = "check"
    /\ rpl_hist.before[1].rsl = "mid" /\ rpl_hist.before[1].rsl_valid
    /\ rpl_neigh[1].rsl_valid
    /\ rpl_hist.discard = "none"

\* The selection ran on a cache whose current parent is under a deny timer.
RplDeniedParentCase ==
    /\ rpl_hist.op = "select"
    /\ rpl_neigh_pref_parent(rpl_hist.before) # 0
    /\ rpl_hist.before[rpl_neigh_pref_parent(rpl_hist.before)].deny # -1

\* The admissible candidates of the run that cost less than max_path_cost
RplEligible ==
    {i \in RplAdmissible(rpl_hist.before, rpl_mrhof) :
        RatLess(rpl_mrhof_path_cost(rpl_hist.before[i]), RatInt(max_path_cost))}

\* C29: a current parent under a running deny timer is never retained by
\* rpl_mrhof_select_parent: its is_parent flag is cleared and the parent is
\* the lowest-cost admissible candidate that costs less than max_path_cost,
\* or none when there is no such candidate.
C29_DeniedParentDropped ==
    RplDeniedParentCase =>
        /\ ~rpl_neigh[rpl_neigh_pref_parent(rpl_hist.before)].is_parent
        /\ rpl_hist.ret # rpl_neigh_pref_parent(rpl_hist.before)
        /\ IF RplEligible = {}
           THEN rpl_hist.ret = 0 /\ RplParents(rpl_neigh) = {}
           ELSE /\ RplLowest(rpl_hist.before, RplEligible, rpl_hist.ret)
                /\ RplParents(rpl_neigh) = {rpl_hist.ret}

\* A denied parent of cost 384 was replaced by a candidate of cost 512,
\* which the switch threshold would not have preferred to it.
C29_Witness ==
    /\ RplDeniedParentCase
    /\ rpl_hist.ret # 0
    /\ rpl_neigh[rpl_hist.ret].is_parent
    /\ rpl_mrhof_path_cost(rpl_neigh[rpl_hist.ret]) = RatInt(512)
    /\ rpl_mrhof_path_cost(
          rpl_hist.before[rpl_neigh_pref_parent(rpl_hist.before)]) = RatInt(384)

\* (b) of RFC 6719 3.3 for the parent of the recorded rank computation
RplNextIntegralRank ==
    rpl_hist.min_hop_rank_inc
        * (1 + rpl_hist.before[rpl_hist.nce].rank \div rpl_hist.min_hop_rank_inc)

\* C30: rpl_mrhof_rank returns RPL_RANK_INFINITE with no parent; otherwise
\* the rank returned is not smaller than (a) the path rank through the
\* parent capped at 65535 nor than (c) that path rank minus MaxRankIncrease,
\* it is not smaller than (b) the parent's rank rounded to the next integral
\* rank whenever (b) fits 16 bits, and it is one of the three.
C30_Original ==
    rpl_hist.op = "rank" =>
        IF rpl_hist.nce = 0 THEN rpl_hist.ret = RPL_RANK_INFINITE
        ELSE /\ rpl_hist.ret >= rpl_mrhof_path_rank(rpl_hist.before[rpl_hist.nce])
             /\ rpl_hist.ret >= rpl_mrhof_path_rank(rpl_hist.before[rpl_hist.nce])
                                    - rpl_hist.max_rank_inc
             /\ RplNextIntegralRank <= UINT16_MAX
                    => rpl_hist.ret >= RplNextIntegralRank
             /\ rpl_hist.ret \in
                    {rpl_mrhof_path_rank(rpl_hist.before[rpl_hist.nce]),
                     rpl_mrhof_path_rank(rpl_hist.before[rpl_hist.nce])
                         - rpl_hist.max_rank_inc,
                     Min(RplNextIntegralRank, UINT16_MAX)}

\* The step is a run of rpl_update_parent that changes the preferred parent
RplParentChanged ==
    /\ rpl_hist'.op \in {"link", "deny"}
    /\ rpl_neigh_pref_parent(rpl_neigh') # rpl_neigh_pref_parent(rpl_neigh)

\* A neighbor of the cache passes rpl_mrhof_check_candidate under
\* RPL_RANK_INFINITE
RplRelaxedCandidate(table) ==
    \E i \in 1..Len(table) :
        /\ table[i].rpl
        /\ rpl_mrhof_check_candidate(table[i], RPL_RANK_INFINITE).discard = "none"

C8_AtMostOneParent ==
    Cardinality(RplParents(rpl_neigh)) <= 1

\* A selection after a deny moved the parent to another neighbor
C8_Witness ==
    /\ rpl_hist.op = "deny"
    /\ rpl_hist.ret # 0
    /\ rpl_neigh[rpl_hist.ret].is_parent
    /\ \E j \in 1..RplCacheMax : rpl_neigh[j].rpl /\ rpl_neigh[j].deny > 0

(***************************************************************************)
(* Join state machine (join_state.c)                                       *)
(***************************************************************************)
WsrdStates ==
    {"DISCOVERY", "RECONNECT", "AUTHENTICATE", "CONFIGURE", "RPL_PARENT",
     "ROUTING", "OPERATIONAL", "DISCONNECTING"}

\* enum wsrd_event; "NONE" is the value 0 of the table terminator
WsrdEvents ==
    {"PA_FROM_NEW_PAN", "PA_FROM_PREV_PAN", "PC_RX", "PC_TIMEOUT",
     "AUTH_SUCCESS", "AUTH_FAIL", "RPL_NEW_PREF_PARENT", "RPL_PREF_LOST",
     "RPL_NO_CANDIDATE", "ROUTING_SUCCESS", "PAN_TIMEOUT", "DISCONNECT"}

\* state_*_transitions[], each with its terminator { }
JoinTransitions(state) ==
    CASE state = "DISCOVERY" ->
            <<<<"PA_FROM_NEW_PAN", "AUTHENTICATE">>,
              <<"DISCONNECT", "DISCONNECTING">>,
              <<"NONE", "DISCOVERY">>>>
      [] state = "RECONNECT" ->
            <<<<"PC_RX", "RPL_PARENT">>,
              <<"PC_TIMEOUT", "DISCOVERY">>,
              <<"PA_FROM_PREV_PAN", "CONFIGURE">>,
              <<"PA_FROM_NEW_PAN", "AUTHENTICATE">>,
              <<"AUTH_FAIL", "DISCOVERY">>,
              <<"DISCONNECT", "DISCONNECTING">>,
              <<"NONE", "DISCOVERY">>>>
      [] state = "AUTHENTICATE" ->
            <<<<"AUTH_SUCCESS", "CONFIGURE">>,
              <<"AUTH_FAIL", "DISCOVERY">>,
              <<"PA_FROM_NEW_PAN", "AUTHENTICATE">>,
              <<"DISCONNECT", "DISCONNECTING">>,
              <<"NONE", "DISCOVERY">>>>
      [] state = "CONFIGURE" ->
            <<<<"PC_RX", "RPL_PARENT">>,
              <<"PC_TIMEOUT", "RECONNECT">>,
              <<"AUTH_FAIL", "DISCOVERY">>,
              <<"DISCONNECT", "DISCONNECTING">>,
              <<"NONE", "DISCOVERY">>>>
      [] state = "RPL_PARENT" ->
            <<<<"RPL_NEW_PREF_PARENT", "ROUTING">>,
              <<"PAN_TIMEOUT", "RECONNECT">>,
              <<"AUTH_FAIL", "DISCOVERY">>,
              <<"DISCONNECT", "DISCONNECTING">>,
              <<"NONE", "DISCOVERY">>>>
      [] state = "ROUTING" ->
            <<<<"ROUTING_SUCCESS", "OPERATIONAL">>,
              <<"PAN_TIMEOUT", "DISCONNECTING">>,
              <<"RPL_PREF_LOST", "DISCONNECTING">>,
              <<"RPL_NO_CANDIDATE", "DISCONNECTING">>,
              <<"AUTH_FAIL", "DISCONNECTING">>,
              <<"DISCONNECT", "DISCONNECTING">>,
              <<"NONE", "DISCOVERY">>>>
      [] state = "OPERATIONAL" ->
            <<<<"PAN_TIMEOUT", "DISCONNECTING">>,
              <<"RPL_PREF_LOST", "DISCONNECTING">>,
              <<"RPL_NO_CANDIDATE", "DISCONNECTING">>,
              <<"AUTH_FAIL", "DISCONNECTING">>,
              <<"DISCONNECT", "DISCONNECTING">>,
              <<"NONE", "DISCOVERY">>>>
      [] state = "DISCONNECTING" ->
            <<<<"PAN_TIMEOUT", "RECONNECT">>,
              <<"RPL_PREF_LOST", "RPL_PARENT">>,
              <<"RPL_NO_CANDIDATE", "RECONNECT">>,
              <<"AUTH_FAIL", "DISCOVERY">>,
              <<"DISCONNECT", "DISCONNECTING">>,
              <<"NONE", "DISCOVERY">>>>

\* join_states[]: the exit and enter handlers of a state ("NULL" for none)
join_states(state) ==
    CASE state = "DISCOVERY" ->
            [enter |-> "join_state_1_enter", exit |-> "join_state_1_exit"]
      [] state = "RECONNECT" ->
            [enter |-> "join_state_3_reconnect_enter",
             exit |-> "join_state_3_reconnect_exit"]
      [] state = "AUTHENTICATE" ->
            [enter |-> "join_state_2_enter", exit |-> "NULL"]
      [] state = "CONFIGURE" ->
            [enter |-> "join_state_3_enter", exit |-> "join_state_3_exit"]
      [] state = "RPL_PARENT" ->
            [enter |-> "join_state_4_choose_parent_enter",
             exit |-> "join_state_4_choose_parent_exit"]
      [] state = "ROUTING" ->
            [enter |-> "join_state_4_routing_enter", exit |-> "NULL"]
      [] state = "OPERATIONAL" ->
            [enter |-> "join_state_5_enter", exit |-> "join_state_5_exit"]
      [] state = "DISCONNECTING" ->
            [enter |-> "join_state_disconnecting_enter",
             exit |-> "join_state_disconnecting_exit"]

\* struct wsrd after the zero initialisation of main(). pan_id and
\* prev_pan_id are "none" (0xffff) or "pan"; eapol_target is "bc" (EUI64_BC),
\* "pa_src" (the neighbor whose PAN advertisement was selected) or "parent"
\* (the neighbor last notified as preferred parent); timers, trickles and txalgs are TRUE while running, sockets
\* while open; neigh tells that the neighbor tables are not empty and parent
\* that one neighbor is the preferred parent.
WsrdZeroed ==
    [state |-> "DISCOVERY", last_event |-> "NONE", running |-> TRUE,
     crashed |-> FALSE,
     pan_id |-> "none", prev_pan_id |-> "none", pan_version |-> -1,
     gak_index |-> 0, gtkl |-> FALSE, supp_running |-> FALSE, pcs_nb |-> 0,
     eapol_target |-> "bc",
     pan_timeout_timer |-> FALSE, unregistration_timer |-> FALSE,
     pas_tkl |-> FALSE, pcs_tkl |-> FALSE, pa_tkl |-> FALSE, pc_tkl |-> FALSE,
     dis_txalg |-> FALSE, dio_trickle |-> FALSE, dao_refresh_timer |-> FALSE,
     dhcp_running |-> FALSE, solicit_txalg |-> FALSE, iaaddr |-> FALSE,
     rpl_fd |-> FALSE,
     eapol_relay_fd |-> FALSE, dhcp_relay |-> FALSE,
     neigh |-> FALSE, parent |-> FALSE, own_aro_timer |-> FALSE,
     dao_ack_received |-> FALSE, etx_fast |-> FALSE,
     config_file |-> FALSE, keys_file |-> FALSE]

\* BUG_ON(cond): the process aborts
JoinBugOn(w) == [w EXCEPT !.crashed = TRUE]

\* rpl_stop: the socket is closed and the RPL timers are stopped
JoinRplStop(w) ==
    [w EXCEPT !.rpl_fd = FALSE, !.dis_txalg = FALSE, !.dio_trickle = FALSE,
              !.dao_refresh_timer = FALSE]

\* ipv6_neigh_clean, ws_neigh_clean
JoinNeighClean(w) ==
    [w EXCEPT !.neigh = FALSE, !.parent = FALSE, !.own_aro_timer = FALSE,
              !.dao_ack_received = FALSE]

\* dhcp_client_stop: the client stops and gives up its address
JoinDhcpStop(w) ==
    [w EXCEPT !.dhcp_running = FALSE, !.solicit_txalg = FALSE, !.iaaddr = FALSE]

\* The three ETX context assignments to the WS_ETX_* defaults
JoinEtxDefault(w) == [w EXCEPT !.etx_fast = FALSE]

\* A variant that leaves the active GAK index as it is.
join_state_1_enter_KeepGak(w) ==
    LET w1 == [w EXCEPT !.config_file = FALSE, !.keys_file = FALSE,
                        !.pan_id = "none", !.prev_pan_id = "none",
                        !.gtkl = FALSE, !.supp_running = FALSE,
                        !.eapol_target = "bc",
                        !.pan_version = -1, !.pan_timeout_timer = FALSE]
        w2 == JoinEtxDefault(JoinNeighClean(JoinRplStop(JoinDhcpStop(w1))))
    IN [w2 EXCEPT !.pas_tkl = TRUE]

join_state_1_enter(w) ==
    LET w1 == [w EXCEPT !.config_file = FALSE, !.keys_file = FALSE,
                        !.pan_id = "none", !.prev_pan_id = "none",
                        !.gtkl = FALSE, !.supp_running = FALSE,
                        !.eapol_target = "bc", !.gak_index = 0,
                        !.pan_version = -1, !.pan_timeout_timer = FALSE]
        w2 == JoinEtxDefault(JoinNeighClean(JoinRplStop(JoinDhcpStop(w1))))
    IN [w2 EXCEPT !.pas_tkl = TRUE]

join_state_1_exit(w) ==
    IF ~w.pas_tkl THEN JoinBugOn(w)
    ELSE [w EXCEPT !.pas_tkl = FALSE]

join_state_3_reconnect_enter(w) ==
    IF w.pan_id = "none" \/ ~w.gtkl THEN JoinBugOn(w)
    ELSE LET w1 == [w EXCEPT !.prev_pan_id = w.pan_id, !.pan_id = "none",
                             !.eapol_target = "bc", !.gak_index = 0,
                             !.pan_version = -1, !.pcs_nb = 0,
                             !.pan_timeout_timer = FALSE]
             w2 == JoinEtxDefault(JoinRplStop(JoinNeighClean(JoinDhcpStop(w1))))
         IN [w2 EXCEPT !.pas_tkl = TRUE, !.pcs_tkl = TRUE]

\* A variant that leaves the PCS trickle running.
join_state_3_reconnect_exit_KeepPcs(w) ==
    [w EXCEPT !.pas_tkl = FALSE]

join_state_3_reconnect_exit(w) ==
    [w EXCEPT !.pas_tkl = FALSE, !.pcs_tkl = FALSE]

join_state_2_enter(w) ==
    IF w.pan_id = "none" THEN JoinBugOn(w)
    ELSE [w EXCEPT !.gtkl = FALSE, !.supp_running = TRUE]

join_state_3_enter(w) ==
    IF w.pan_id = "none" \/ ~w.gtkl THEN JoinBugOn(w)
    ELSE [w EXCEPT !.pan_version = -1, !.pcs_nb = 0, !.pcs_tkl = TRUE]

join_state_3_exit(w) ==
    IF ~w.pcs_tkl THEN JoinBugOn(w)
    ELSE [w EXCEPT !.pcs_tkl = FALSE]

join_state_4_choose_parent_enter(w) ==
    IF \/ w.pan_id = "none"
       \/ ~w.gtkl
       \/ w.pan_version < 0
       \/ ~w.pan_timeout_timer
    THEN JoinBugOn(w)
    ELSE LET w1 == JoinDhcpStop(w)
             w2 == IF w1.last_event = "PC_RX"
                   THEN [w1 EXCEPT !.etx_fast = TRUE] ELSE w1
         IN [w2 EXCEPT !.rpl_fd = TRUE, !.dis_txalg = TRUE]

join_state_4_choose_parent_exit(w) ==
    IF ~w.dis_txalg THEN JoinBugOn(w)
    ELSE JoinEtxDefault([w EXCEPT !.dis_txalg = FALSE])

\* A variant without the BUG_ON on a DHCP client that already runs.
join_state_4_routing_enter_NoDhcpCheck(w) ==
    IF \/ w.pan_id = "none"
       \/ ~w.gtkl
       \/ w.pan_version < 0
       \/ ~w.parent
    THEN JoinBugOn(w)
    ELSE [w EXCEPT !.dhcp_running = TRUE, !.solicit_txalg = TRUE]

join_state_4_routing_enter(w) ==
    IF \/ w.pan_id = "none"
       \/ ~w.gtkl
       \/ w.pan_version < 0
       \/ ~w.parent
       \/ w.dhcp_running
    THEN JoinBugOn(w)
    ELSE [w EXCEPT !.dhcp_running = TRUE, !.solicit_txalg = TRUE]

join_state_5_enter(w) ==
    IF \/ w.pan_id = "none"
       \/ ~w.gtkl
       \/ w.pan_version < 0
       \/ ~w.parent
       \/ ~w.dhcp_running
       \/ ~w.iaaddr
       \/ ~w.own_aro_timer
       \/ ~w.dao_ack_received
       \/ ~w.dao_refresh_timer
       \/ w.eapol_relay_fd
    THEN JoinBugOn(w)
    ELSE [w EXCEPT !.dio_trickle = TRUE, !.eapol_relay_fd = TRUE,
                   !.pa_tkl = TRUE, !.pc_tkl = TRUE, !.dhcp_relay = TRUE]

\* A variant that leaves the PA trickle running.
join_state_5_exit_KeepPa(w) ==
    IF ~w.eapol_relay_fd THEN JoinBugOn(w)
    ELSE [w EXCEPT !.eapol_relay_fd = FALSE, !.dhcp_relay = FALSE,
                   !.pc_tkl = FALSE]

join_state_5_exit(w) ==
    IF ~w.eapol_relay_fd THEN JoinBugOn(w)
    ELSE [w EXCEPT !.eapol_relay_fd = FALSE, !.dhcp_relay = FALSE,
                   !.pa_tkl = FALSE, !.pc_tkl = FALSE]

\* A variant that does not start the unregistration timer.
join_state_disconnecting_enter_NoTimer(w) ==
    LET w1 == [w EXCEPT !.solicit_txalg = FALSE]
    IN IF ~w1.parent \/ ~w1.iaaddr
       THEN JoinRplStop(IF w1.last_event # "RPL_PREF_LOST"
                        THEN [w1 EXCEPT !.pan_timeout_timer = FALSE] ELSE w1)
       ELSE JoinRplStop([w1 EXCEPT !.pan_timeout_timer = FALSE,
                                   !.parent = FALSE,
                                   !.own_aro_timer = FALSE])

join_state_disconnecting_enter(w) ==
    LET w1 == [w EXCEPT !.solicit_txalg = FALSE, !.unregistration_timer = TRUE]
    IN IF ~w1.parent \/ ~w1.iaaddr
       THEN JoinRplStop(IF w1.last_event # "RPL_PREF_LOST"
                        THEN [w1 EXCEPT !.pan_timeout_timer = FALSE] ELSE w1)
       ELSE JoinRplStop([w1 EXCEPT !.pan_timeout_timer = FALSE,
                                   !.parent = FALSE,
                                   !.own_aro_timer = FALSE])

\* A variant that sends the DIO before it clears the flag.
JoinDisconnectingSignals_DioFirst(w) ==
    IF ~w.parent \/ ~w.iaaddr THEN <<>>
    ELSE (IF w.pan_timeout_timer /\ w.dao_refresh_timer
          THEN <<"rpl_send_dao_no_path">> ELSE <<>>)
         \o (IF w.dio_trickle THEN <<"rpl_send_dio">> ELSE <<>>)
         \o <<"is_parent = false">>
         \o <<"ipv6_send_ns_aro(0)">>

\* What join_state_disconnecting_enter sends and when it clears the
\* parent's is_parent flag, in the order of the code
JoinDisconnectingSignals(w) ==
    IF ~w.parent \/ ~w.iaaddr THEN <<>>
    ELSE (IF w.pan_timeout_timer /\ w.dao_refresh_timer
          THEN <<"rpl_send_dao_no_path">> ELSE <<>>)
         \o <<"is_parent = false">>
         \o (IF w.dio_trickle THEN <<"rpl_send_dio">> ELSE <<>>)
         \o <<"ipv6_send_ns_aro(0)">>

join_state_disconnecting_exit(w) ==
    IF w.last_event = "DISCONNECT" THEN [w EXCEPT !.running = FALSE] ELSE w

\* The call of a handler through its function pointer
JoinCall(handler, w) ==
    CASE handler = "NULL" -> w
      [] handler = "join_state_1_enter" -> join_state_1_enter(w)
      [] handler = "join_state_1_exit" -> join_state_1_exit(w)
      [] handler = "join_state_3_reconnect_enter" -> join_state_3_reconnect_enter(w)
      [] handler = "join_state_3_reconnect_exit" -> join_state_3_reconnect_exit(w)
      [] handler = "join_state_2_enter" -> join_state_2_enter(w)
      [] handler = "join_state_3_enter" -> join_state_3_enter(w)
      [] handler = "join_state_3_exit" -> join_state_3_exit(w)
      [] handler = "join_state_4_choose_parent_enter" ->
            join_state_4_choose_parent_enter(w)
      [] handler = "join_state_4_choose_parent_exit" ->
            join_state_4_choose_parent_exit(w)
      [] handler = "join_state_4_routing_enter" -> join_state_4_routing_enter(w)
      [] handler = "join_state_5_enter" -> join_state_5_enter(w)
      [] handler = "join_state_5_exit" -> join_state_5_exit(w)
      [] handler = "join_state_disconnecting_enter" ->
            join_state_disconnecting_enter(w)
      [] handler = "join_state_disconnecting_exit" ->
            join_state_disconnecting_exit(w)

RECURSIVE JoinLookup_NoCompare(_, _, _)
\* A scan that takes the first entry whatever its event.
JoinLookup_NoCompare(transitions, event, k) ==
    IF transitions[k][1] = "NONE" THEN 0 ELSE k

RECURSIVE JoinLookup(_, _, _)
\* The for loop of join_state_transition from entry k on: the index of the
\* first entry for the event, 0 when the terminator is reached
JoinLookup(transitions, event, k) ==
    IF transitions[k][1] = "NONE" THEN 0
    ELSE IF transitions[k][1] # event
    THEN JoinLookup(transitions, event, k + 1)
    ELSE k

\* A variant that enters the new state before it leaves the old one.
join_state_transition_EnterFirst(w, event) ==
    LET transitions == JoinTransitions(w.state)
        k == JoinLookup(transitions, event, 1)
        w1 == [w EXCEPT !.last_event = event]
        exit == join_states(w.state).exit
        w2 == [w1 EXCEPT !.state = transitions[k][2]]
        enter == join_states(w2.state).enter
        w3 == JoinCall(enter, w2)
        w4 == JoinCall(exit, w3)
        steps == <<"last_event", "state">> \o
                 (IF enter # "NULL" THEN <<enter>> ELSE <<>>) \o
                 (IF exit # "NULL" THEN <<exit>> ELSE <<>>)
    IN IF k = 0 THEN [w |-> w, steps |-> <<>>, tx |-> <<>>]
       ELSE [w |-> w4, steps |-> steps \o <<"dbus_emit_change">>,
             tx |-> IF enter = "join_state_disconnecting_enter"
                    THEN JoinDisconnectingSignals(w2) ELSE <<>>]

\* join_state_transition: wsrd after the call and the steps taken
join_state_transition(w, event) ==
    LET transitions == JoinTransitions(w.state)
        k == JoinLookup(transitions, event, 1)
        w1 == [w EXCEPT !.last_event = event]
        exit == join_states(w.state).exit
        w2 == JoinCall(exit, w1)
        next_state == transitions[k][2]
        enter == join_states(next_state).enter
        w4 == JoinCall(enter, [w2 EXCEPT !.state = next_state])
        steps1 == <<"last_event">> \o
                  (IF exit # "NULL" THEN <<exit>> ELSE <<>>)
        steps2 == steps1 \o <<"state">> \o
                  (IF enter # "NULL" THEN <<enter>> ELSE <<>>)
        tx == IF enter = "join_state_disconnecting_enter"
              THEN JoinDisconnectingSignals(w2) ELSE <<>>
    IN IF k = 0 THEN [w |-> w, steps |-> <<>>, tx |-> <<>>]
       ELSE IF w2.crashed THEN [w |-> w2, steps |-> steps1, tx |-> <<>>]
       ELSE IF w4.crashed THEN [w |-> w4, steps |-> steps2, tx |-> <<>>]
       ELSE [w |-> w4, steps |-> steps2 \o <<"dbus_emit_change">>, tx |-> tx]

\* A variant without the case label of Reconnect.
dbus_get_join_state_NoReconnect(state) ==
    CASE state = "DISCOVERY" -> 1
      [] state = "AUTHENTICATE" -> 2
      [] state = "CONFIGURE" -> 3
      [] state \in {"RPL_PARENT", "ROUTING"} -> 4
      [] state = "OPERATIONAL" -> 5
      [] state = "DISCONNECTING" -> 6
      [] OTHER -> 0

\* dbus_get_join_state: the JoinState property read over D-Bus; 0 stands
\* for the BUG() of the default label
dbus_get_join_state(state) ==
    CASE state = "DISCOVERY" -> 1
      [] state = "AUTHENTICATE" -> 2
      [] state \in {"CONFIGURE", "RECONNECT"} -> 3
      [] state \in {"RPL_PARENT", "ROUTING"} -> 4
      [] state = "OPERATIONAL" -> 5
      [] state = "DISCONNECTING" -> 6
      [] OTHER -> 0

\* PCS frames sent before PC_TIMEOUT
JoinPcsMax == 1

\* Nothing found in the storage directory
JoinNoLoad ==
    [config |-> FALSE, keys |-> FALSE, gtk |-> FALSE, lgtk |-> FALSE]

JoinNoHist ==
    [op |-> "main", event |-> "NONE", pre |-> WsrdZeroed, post |-> WsrdZeroed,
     steps |-> <<>>, tx |-> <<>>, load |-> JoinNoLoad]

\* main() before wsrd_init_ws
InitJoin ==
    /\ wsrd = WsrdZeroed
    /\ join_hist = JoinNoHist

\* The main loop runs
JoinAlive == join_hist.op # "main" /\ wsrd.running /\ ~wsrd.crashed

\* What the storage directory holds at startup: the network-config file,
\* the network-keys file and, in it, a GTK and an LGTK that have not expired
JoinLoads ==
    {l \in [config : BOOLEAN, keys : BOOLEAN, gtk : BOOLEAN, lgtk : BOOLEAN] :
        (l.gtk \/ l.lgtk) => l.keys}

\* supp_get_gtkl over the first count slots of supp->gtks: the GTK slots
\* come first, the LGTK slots after them
supp_get_gtkl(load, count) ==
    load.gtk \/ (count = "ARRAY_SIZE" /\ load.lgtk)

\* wsrd_storage_load: true when the file opens; the stored PAN id is set
wsrd_storage_load(w, load) ==
    IF load.config THEN [w EXCEPT !.pan_id = "pan"] ELSE w

\* supp_storage_load: true when the file opens; expired keys are cleared,
\* the others installed
supp_storage_load(w, load) ==
    IF load.keys THEN [w EXCEPT !.gtkl = load.gtk] ELSE w

\* wsrd_init_ws: Reconnect when both files load and supp_get_gtkl over all
\* the slots is not zero, else Discovery
JoinInitWs ==
    \E load \in JoinLoads :
        /\ join_hist.op = "main"
        /\ LET w0 == [wsrd EXCEPT !.config_file = load.config,
                                  !.keys_file = load.keys]
               w1 == wsrd_storage_load(w0, load)
               w2 == IF load.config THEN supp_storage_load(w1, load) ELSE w1
           IN wsrd' = IF \/ ~load.config
                         \/ ~load.keys
                         \/ ~supp_get_gtkl(load, "ARRAY_SIZE")
                      THEN join_state_1_enter(w2)
                      ELSE join_state_3_reconnect_enter(
                               [w2 EXCEPT !.state = "RECONNECT",
                                          !.supp_running = TRUE])
        /\ join_hist' = [JoinNoHist EXCEPT !.op = "init", !.load = load]
        /\ JoinFrame

\* A handler that changes wsrd to pre and posts the event; with a target
\* other than "keep" it sets the EAPOL target after the call
JoinPost(op, pre, event, target) ==
    \E r \in {join_state_transition(pre, event)} :
       /\ wsrd' = IF r.w.crashed \/ target = "keep" THEN r.w
                  ELSE [r.w EXCEPT !.eapol_target = target]
       /\ join_hist' = [op |-> op, event |-> event, pre |-> pre, post |-> r.w,
                        steps |-> r.steps, tx |-> r.tx, load |-> JoinNoLoad]

\* ws_recv_pa: a PAN advertisement heard while soliciting; a new PAN is
\* selected and its sender becomes the EAPOL target, or the previous PAN is
\* found again
JoinRecvPa ==
    \E event \in {"PA_FROM_NEW_PAN", "PA_FROM_PREV_PAN"} :
        /\ JoinAlive
        /\ wsrd.pas_tkl
        /\ event = "PA_FROM_PREV_PAN" => wsrd.prev_pan_id # "none"
        /\ JoinPost("recv_pa",
                    [wsrd EXCEPT !.pan_id = "pan", !.neigh = TRUE,
                                 !.eapol_target =
                                    IF event = "PA_FROM_NEW_PAN" THEN "pa_src"
                                    ELSE @],
                    event, "keep")
        /\ JoinFrame

\* ws_recv_pc: a PAN configuration of the PAN joined; the PAN version is
\* learnt and the PAN timeout restarts
JoinRecvPc ==
    /\ JoinAlive
    /\ wsrd.gtkl
    /\ wsrd.pan_id # "none" \/ wsrd.prev_pan_id # "none"
    /\ JoinPost("recv_pc",
                [wsrd EXCEPT !.pan_id = "pan", !.pan_version = 0,
                             !.neigh = TRUE, !.pan_timeout_timer = TRUE],
                "PC_RX", "keep")
    /\ JoinFrame

\* The PCS trickle fires: one more PCS, or PC_TIMEOUT after the last one
JoinPcsTimeout ==
    /\ JoinAlive
    /\ wsrd.pcs_tkl
    /\ IF wsrd.pcs_nb < JoinPcsMax
       THEN /\ wsrd' = [wsrd EXCEPT !.pcs_nb = @ + 1]
            /\ join_hist' = [JoinNoHist EXCEPT !.op = "send_pcs"]
       ELSE JoinPost("pcs_timeout", wsrd, "PC_TIMEOUT", "keep")
    /\ JoinFrame

\* The PAN timeout timer expires
JoinPanTimeout ==
    /\ JoinAlive
    /\ wsrd.pan_timeout_timer
    /\ JoinPost("pan_timeout", [wsrd EXCEPT !.pan_timeout_timer = FALSE],
                "PAN_TIMEOUT", "keep")
    /\ JoinFrame

\* wsrd_eapol_on_gtk_change with a GTK to install
JoinGtkInstall ==
    /\ JoinAlive
    /\ wsrd.supp_running
    /\ JoinPost("gtk_change", [wsrd EXCEPT !.gtkl = TRUE, !.gak_index = 1],
                "AUTH_SUCCESS", "keep")
    /\ JoinFrame

\* A variant that leaves the EAPOL target as it is for a new parent.
JoinOnPrefParentChange_KeepTarget(w, kind) ==
    LET pre == [w EXCEPT !.parent = (kind = "new"), !.neigh = TRUE,
                         !.own_aro_timer = FALSE, !.dao_ack_received = FALSE]
    IN CASE kind = "new" ->
                JoinPost("pref_parent_change", pre, "RPL_NEW_PREF_PARENT",
                         "keep")
         [] kind = "lost" ->
                JoinPost("pref_parent_change", [pre EXCEPT !.eapol_target = "bc"],
                         "RPL_PREF_LOST", "keep")
         [] kind = "none" ->
                JoinPost("pref_parent_change", [pre EXCEPT !.eapol_target = "bc"],
                         "RPL_NO_CANDIDATE", "keep")

\* wsrd_on_pref_parent_change after a selection that changed the parent to
\* a neighbor ("new") or to none, with candidates left ("lost") or not
JoinOnPrefParentChange(w, kind) ==
    LET pre == [w EXCEPT !.parent = (kind = "new"), !.neigh = TRUE,
                         !.own_aro_timer = FALSE, !.dao_ack_received = FALSE]
    IN CASE kind = "new" ->
                JoinPost("pref_parent_change", pre, "RPL_NEW_PREF_PARENT",
                         "parent")
         [] kind = "lost" ->
                JoinPost("pref_parent_change", [pre EXCEPT !.eapol_target = "bc"],
                         "RPL_PREF_LOST", "keep")
         [] kind = "none" ->
                JoinPost("pref_parent_change", [pre EXCEPT !.eapol_target = "bc"],
                         "RPL_NO_CANDIDATE", "keep")

JoinParentKinds == {"new", "lost", "none"}

\* rpl_update_parent changes the preferred parent
JoinPrefParentChange ==
    \E kind \in JoinParentKinds :
        /\ JoinAlive
        /\ wsrd.rpl_fd
        /\ kind # "new" => wsrd.parent
        /\ JoinOnPrefParentChange(wsrd, kind)
        /\ JoinFrame

\* rpl_neigh_deny(parent): the selection that follows changes the parent;
\* there is none once rpl_stop has run
JoinDenyParent(w, kind, op) ==
    IF w.rpl_fd THEN JoinOnPrefParentChange(w, kind)
    ELSE /\ wsrd' = w
         /\ join_hist' = [JoinNoHist EXCEPT !.op = op]

\* wsrd_eapol_on_failure: the parent is denied, or AUTH_FAIL is posted
JoinEapolFailure ==
    \E kind \in JoinParentKinds :
        /\ JoinAlive
        /\ wsrd.supp_running
        /\ IF wsrd.parent /\ wsrd.eapol_target # "parent"
           THEN /\ wsrd' = JoinBugOn(wsrd)
                /\ join_hist' = [JoinNoHist EXCEPT !.op = "eapol_failure"]
           ELSE IF wsrd.parent /\ wsrd.gtkl
           THEN JoinDenyParent(wsrd, kind, "eapol_failure")
           ELSE JoinPost("eapol_failure", wsrd, "AUTH_FAIL", "keep")
        /\ JoinFrame

\* wsrd_on_dhcp_txalg_failure: the parent is denied
JoinDhcpTxalgFailure ==
    \E kind \in JoinParentKinds :
        /\ JoinAlive
        /\ wsrd.solicit_txalg
        /\ IF ~wsrd.parent
           THEN /\ wsrd' = JoinBugOn(wsrd)
                /\ join_hist' = [JoinNoHist EXCEPT !.op = "dhcp_failure"]
           ELSE JoinDenyParent(wsrd, kind, "dhcp_failure")
        /\ JoinFrame

\* wsrd_on_dhcp_addr_add: an address is assigned and registered to the parent
JoinDhcpAddrAdd ==
    /\ JoinAlive
    /\ wsrd.solicit_txalg
    /\ wsrd' = IF ~wsrd.parent THEN JoinBugOn(wsrd)
               ELSE [wsrd EXCEPT !.iaaddr = TRUE, !.solicit_txalg = FALSE,
                                 !.own_aro_timer = TRUE]
    /\ join_hist' = [JoinNoHist EXCEPT !.op = "dhcp_addr_add"]
    /\ JoinFrame

\* wsrd_on_dao_ack: the parent acknowledges a DAO
JoinDaoAck ==
    /\ JoinAlive
    /\ wsrd.rpl_fd /\ wsrd.parent /\ wsrd.own_aro_timer
    /\ JoinPost("dao_ack", [wsrd EXCEPT !.dao_ack_received = TRUE,
                                        !.dao_refresh_timer = TRUE],
                "ROUTING_SUCCESS", "keep")
    /\ JoinFrame

\* wsrd_handle_signal: SIGTERM
JoinSigterm ==
    /\ JoinAlive
    /\ JoinPost("sigterm", wsrd, "DISCONNECT", "keep")
    /\ JoinFrame

\* wsrd_on_unregistration_timer_timeout
JoinUnregistrationTimeout ==
    /\ JoinAlive
    /\ wsrd.unregistration_timer
    /\ JoinPost("unregistration_timeout",
                [wsrd EXCEPT !.unregistration_timer = FALSE],
                wsrd.last_event, "keep")
    /\ JoinFrame

\* The daemon just before the enter action of a transition into RPL-Parent,
\* Routing or Operational, in any condition of the fields the three actions
\* test; the timers and the DAO-ack flag of a parent exist with the parent
\* only, an assigned address with a running DHCP client only.
InitJoinDrawn ==
    /\ \E state \in {"RPL_PARENT", "ROUTING", "OPERATIONAL"},
          pan_id \in {"none", "pan"}, pan_version \in {-1, 0},
          gtkl \in BOOLEAN, pan_timeout_timer \in BOOLEAN,
          parent \in BOOLEAN, dhcp_running \in BOOLEAN, iaaddr \in BOOLEAN,
          own_aro_timer \in BOOLEAN, dao_ack_received \in BOOLEAN,
          dao_refresh_timer \in BOOLEAN, eapol_relay_fd \in BOOLEAN :
        /\ iaaddr => dhcp_running
        /\ own_aro_timer => parent
        /\ dao_ack_received => parent
        /\ wsrd = [WsrdZeroed EXCEPT
                    !.state = state, !.pan_id = pan_id,
                    !.pan_version = pan_version, !.gtkl = gtkl,
                    !.pan_timeout_timer = pan_timeout_timer,
                    !.parent = parent, !.neigh = parent,
                    !.dhcp_running = dhcp_running, !.iaaddr = iaaddr,
                    !.own_aro_timer = own_aro_timer,
                    !.dao_ack_received = dao_ack_received,
                    !.dao_refresh_timer = dao_refresh_timer,
                    !.eapol_relay_fd = eapol_relay_fd]
    /\ join_hist = JoinNoHist

\* join_state_transition after the state field is updated: the enter action
\* of the new state is called
JoinEnterCall ==
    /\ join_hist.op = "main"
    /\ \E r \in {JoinCall(join_states(wsrd.state).enter, wsrd)} :
        /\ wsrd' = r
        /\ join_hist' = [op |-> "enter", event |-> "NONE", pre |-> wsrd,
                         post |-> r,
                         steps |-> <<join_states(wsrd.state).enter>>,
                         tx |-> <<>>, load |-> JoinNoLoad]
    /\ JoinFrame

NextJoinEnter == JoinEnterCall

NextJoin ==
    \/ JoinInitWs
    \/ JoinRecvPa
    \/ JoinRecvPc
    \/ JoinPcsTimeout
    \/ JoinPanTimeout
    \/ JoinGtkInstall
    \/ JoinPrefParentChange
    \/ JoinEapolFailure
    \/ JoinDhcpTxalgFailure
    \/ JoinDhcpAddrAdd
    \/ JoinDaoAck
    \/ JoinSigterm
    \/ JoinUnregistrationTimeout

(***************************************************************************)
(* Properties of the join state machine                                    *)
(***************************************************************************)
\* The table of the state has an entry for the event
JoinListed(state, event) ==
    /\ event # "NONE"
    /\ \E k \in 1..Len(JoinTransitions(state)) :
            JoinTransitions(state)[k][1] = event

\* C1: for every (state, event) pair without an entry in the table of the
\* state, join_state_transition changes nothing: state, last_event, timers and
\* counters are as before, no exit or enter handler runs and no JoinState
\* change is emitted. This holds of every call made, and of the call with
\* any other event in the state reached.
C1_UnlistedEventNoOp ==
    /\ ~JoinListed(join_hist.pre.state, join_hist.event) =>
            /\ join_hist.post = join_hist.pre
            /\ join_hist.steps = <<>>
    /\ \A event \in WsrdEvents \cup {"NONE"} :
            ~JoinListed(wsrd.state, event) =>
                join_state_transition(wsrd, event) =
                    [w |-> wsrd, steps |-> <<>>, tx |-> <<>>]

\* AUTH_SUCCESS posted by a GTK installation in Operational, where the table
\* has no entry for it
C1_Witness ==
    /\ join_hist.op = "gtk_change"
    /\ join_hist.event = "AUTH_SUCCESS"
    /\ join_hist.pre.state = "OPERATIONAL"
    /\ join_hist.pre.pa_tkl /\ join_hist.pre.pan_timeout_timer
    /\ join_hist.steps = <<>>
    /\ wsrd = join_hist.pre

\* The last call ran the handler
JoinRan(handler) ==
    \E k \in 1..Len(join_hist.steps) : join_hist.steps[k] = handler

\* The last step entered Discovery: by a transition or at startup
JoinEnteredDiscovery ==
    \/ JoinRan("join_state_1_enter")
    \/ join_hist.op = "init" /\ wsrd.state = "DISCOVERY"

\* C13: every entry into Discovery (after a DISCONNECT posted in Operational
\* and the table's chain, or any other way) leaves the IPv6 neighbor cache
\* and the Wi-SUN neighbor table empty, the GAK index at 0 and the PAN id at
\* 0xffff.
C13_DiscoveryEntryClean ==
    JoinEnteredDiscovery =>
        /\ wsrd.state = "DISCOVERY"
        /\ ~wsrd.neigh /\ ~wsrd.parent
        /\ wsrd.gak_index = 0
        /\ wsrd.pan_id = "none"

\* Discovery entered from Disconnecting after a DISCONNECT, with neighbors,
\* a key and a PAN before
C13_Witness ==
    /\ JoinRan("join_state_1_enter")
    /\ join_hist.pre.state = "DISCONNECTING"
    /\ join_hist.pre.last_event = "DISCONNECT"
    /\ join_hist.pre.neigh /\ join_hist.pre.gak_index = 1
    /\ join_hist.pre.pan_id = "pan"
    /\ wsrd.state = "DISCOVERY" /\ ~wsrd.neigh /\ wsrd.gak_index = 0
    /\ wsrd.pan_id = "none"

\* C12: after a DISCONNECT event (SIGTERM) has been accepted, the main loop
\* eventually stops (running becomes false), whatever other events are
\* posted while the unregistration timer runs.
C12_Original ==
    (join_hist.op = "sigterm" /\ join_hist.event = "DISCONNECT"
        /\ join_hist.steps # <<>>)
    ~> ~wsrd.running

\* Where the replay of a cause takes the machine from Disconnecting
JoinReplayTarget(cause) ==
    CASE cause = "PAN_TIMEOUT" -> "RECONNECT"
      [] cause = "RPL_PREF_LOST" -> "RPL_PARENT"
      [] cause = "RPL_NO_CANDIDATE" -> "RECONNECT"
      [] cause = "AUTH_FAIL" -> "DISCOVERY"
      [] OTHER -> "DISCONNECTING"

JoinInDisconnecting ==
    wsrd.state = "DISCONNECTING" /\ wsrd.running /\ ~wsrd.crashed

\* In Disconnecting the timer runs and last_event is one of the five causes;
\* the replay at its expiry leaves for the state of the cause, or stops the
\* main loop when the cause is DISCONNECT.
JoinDisconnectingSafe ==
    /\ JoinInDisconnecting =>
            /\ wsrd.unregistration_timer
            /\ wsrd.last_event \in {"PAN_TIMEOUT", "RPL_PREF_LOST",
                                     "RPL_NO_CANDIDATE", "AUTH_FAIL",
                                     "DISCONNECT"}
    /\ (join_hist.op = "unregistration_timeout"
            /\ join_hist.pre.state = "DISCONNECTING") =>
            /\ join_hist.event = join_hist.pre.last_event
            /\ wsrd.state = JoinReplayTarget(join_hist.event)
            /\ wsrd.running <=> join_hist.event # "DISCONNECT"

\* C14: Disconnecting is never terminal: whenever the machine is in
\* Disconnecting the unregistration timer is running and last_event has an
\* entry in the Disconnecting table; the expiry replays it, and the machine
\* leaves Disconnecting for Reconnect, RPL-Parent or Discovery according to
\* the cause replayed, or the main loop stops when that is DISCONNECT.
C14_NeverTerminal ==
    /\ []JoinDisconnectingSafe
    /\ JoinInDisconnecting ~>
            (wsrd.state \in {"RECONNECT", "RPL_PARENT", "DISCOVERY"}
                \/ ~wsrd.running)

\* The timer expired in Disconnecting after the preferred parent was lost,
\* and the replay entered RPL-Parent.
C14_Witness ==
    /\ join_hist.op = "unregistration_timeout"
    /\ join_hist.pre.state = "DISCONNECTING"
    /\ join_hist.event = "RPL_PREF_LOST"
    /\ wsrd.state = "RPL_PARENT" /\ wsrd.running

\* The steps of an accepted transition between the two states
JoinExpectedSteps(from, to) ==
    <<"last_event">>
    \o (IF join_states(from).exit # "NULL"
        THEN <<join_states(from).exit>> ELSE <<>>)
    \o <<"state">>
    \o (IF join_states(to).enter # "NULL"
        THEN <<join_states(to).enter>> ELSE <<>>)
    \o <<"dbus_emit_change">>

\* The first entry for the event in the table of the state leads to next
JoinFirstEntry(state, event, next) ==
    \E k \in 1..Len(JoinTransitions(state)) :
        /\ JoinTransitions(state)[k] = <<event, next>>
        /\ \A j \in 1..(k - 1) : JoinTransitions(state)[j][1] # event

\* C15: on every accepted transition, self-transitions included, the steps
\* are in this order: last_event is recorded, the exit action of the current
\* state runs (if any), the state field is updated, the enter action of the
\* new state runs (if any), and one JoinState change notification is emitted
\* last; one table entry is applied per posted event.
C15_StepOrder ==
    join_hist.steps # <<>> =>
        /\ JoinFirstEntry(join_hist.pre.state, join_hist.event,
                          join_hist.post.state)
        /\ join_hist.steps =
                JoinExpectedSteps(join_hist.pre.state, join_hist.post.state)
        /\ join_hist.post.last_event = join_hist.event
        /\ Cardinality({k \in 1..Len(join_hist.steps) :
                            join_hist.steps[k] = "state"}) = 1
        /\ Cardinality({k \in 1..Len(join_hist.steps) :
                            join_hist.steps[k] = "dbus_emit_change"}) = 1
        /\ (join_hist.pre.state = "DISCONNECTING"
                /\ join_hist.event = "DISCONNECT") =>
                    /\ ~join_hist.post.running
                    /\ join_hist.post.unregistration_timer

\* The self-transition of Authenticate on a PA from a new PAN: no exit
\* action, the enter action, then the notification.
C15_Witness ==
    /\ join_hist.pre.state = "AUTHENTICATE"
    /\ join_hist.event = "PA_FROM_NEW_PAN"
    /\ wsrd.state = "AUTHENTICATE"
    /\ join_hist.steps =
            <<"last_event", "state", "join_state_2_enter", "dbus_emit_change">>

\* The last step called the enter action on its own
JoinEnterCalled(handler) ==
    join_hist.op = "enter" /\ join_hist.steps = <<handler>>

\* C16 (as amended): entering a state whose precondition is false aborts:
\* RPL-Parent enter requires a known PAN id; Routing enter requires a
\* preferred parent and a DHCP client that is not running yet; Operational
\* enter requires DHCP running with an assigned address, the registration
\* timer running and a DAO-ack received.
C16_EnterPreconditions ==
    /\ (JoinEnterCalled("join_state_4_choose_parent_enter")
            /\ join_hist.pre.pan_id = "none") => wsrd.crashed
    /\ (JoinEnterCalled("join_state_4_routing_enter")
            /\ (~join_hist.pre.parent \/ join_hist.pre.dhcp_running))
                => wsrd.crashed
    /\ (JoinEnterCalled("join_state_5_enter")
            /\ (\/ ~join_hist.pre.dhcp_running
                \/ ~join_hist.pre.iaaddr
                \/ ~join_hist.pre.own_aro_timer
                \/ ~join_hist.pre.dao_ack_received)) => wsrd.crashed

\* Routing entered while the DHCP client already runs: the process aborts.
C16_Witness ==
    /\ JoinEnterCalled("join_state_4_routing_enter")
    /\ join_hist.pre.pan_id = "pan" /\ join_hist.pre.gtkl
    /\ join_hist.pre.pan_version = 0 /\ join_hist.pre.parent
    /\ join_hist.pre.dhcp_running
    /\ wsrd.crashed

\* C16 as first stated: Routing enter requires a DAO-ack already received
\* and the registration timer running.
C16_Original ==
    /\ (JoinEnterCalled("join_state_4_choose_parent_enter")
            /\ join_hist.pre.pan_id = "none") => wsrd.crashed
    /\ (JoinEnterCalled("join_state_4_routing_enter")
            /\ (~join_hist.pre.dao_ack_received
                \/ ~join_hist.pre.own_aro_timer)) => wsrd.crashed
    /\ (JoinEnterCalled("join_state_5_enter")
            /\ (~join_hist.pre.dhcp_running \/ ~join_hist.pre.iaaddr))
                => wsrd.crashed

\* C17: at startup the state machine begins in Reconnect, by the Reconnect
\* enter action, exactly when the stored network configuration and the
\* stored network keys both load and at least one GTK is live after loading;
\* in every other case it begins in Discovery by the Discovery enter action,
\* which clears both stores.
C17_Original ==
    join_hist.op = "init" =>
        /\ ~wsrd.crashed
        /\ wsrd.state = "RECONNECT" <=>
                (join_hist.load.config /\ join_hist.load.keys
                    /\ join_hist.load.gtk)
        /\ wsrd.state = "RECONNECT" => wsrd.pas_tkl /\ wsrd.pcs_tkl
        /\ wsrd.state # "RECONNECT" =>
                /\ wsrd.state = "DISCOVERY"
                /\ wsrd.pas_tkl /\ ~wsrd.pcs_tkl
                /\ ~wsrd.config_file /\ ~wsrd.keys_file

\* The Wi-SUN FAN join state of each internal state
JoinFanCodes ==
    {<<"DISCOVERY", 1>>, <<"AUTHENTICATE", 2>>, <<"CONFIGURE", 3>>,
     <<"RECONNECT", 3>>, <<"RPL_PARENT", 4>>, <<"ROUTING", 4>>,
     <<"OPERATIONAL", 5>>, <<"DISCONNECTING", 6>>}

\* C18: the JoinState property maps each of the 8 internal states to its
\* Wi-SUN FAN join-state code in 1..6 (Discovery 1, Authenticate 2, Configure
\* and Reconnect 3, RPL-Parent and Routing 4, Operational 5, Disconnecting
\* 6), and the state the daemon is in never reaches the default label.
C18_JoinStateCodes ==
    /\ \A s \in WsrdStates : <<s, dbus_get_join_state(s)>> \in JoinFanCodes
    /\ wsrd.state \in WsrdStates
    /\ dbus_get_join_state(wsrd.state) \in 1..6

\* The daemon in Reconnect after a PAN timeout: the property reads 3, as in
\* Configure.
C18_Witness ==
    /\ join_hist.event = "PAN_TIMEOUT"
    /\ wsrd.state = "RECONNECT"
    /\ dbus_get_join_state(wsrd.state) = 3
    /\ dbus_get_join_state("CONFIGURE") = 3

\* The last handler entered Disconnecting
JoinEnteredDisconnecting ==
    /\ JoinRan("join_state_disconnecting_enter")
    /\ ~join_hist.post.crashed

\* Signal a is in the list, before signal b when b is there too
JoinSent(a) == \E i \in 1..Len(join_hist.tx) : join_hist.tx[i] = a

JoinSentBefore(a, b) ==
    \A j \in 1..Len(join_hist.tx) :
        join_hist.tx[j] = b => \E i \in 1..(j - 1) : join_hist.tx[i] = a

\* What the enter action signals when it finds a parent and an address
JoinDisconnectingGates ==
    (JoinEnteredDisconnecting /\ join_hist.pre.parent /\ join_hist.pre.iaaddr) =>
        /\ JoinSent("rpl_send_dao_no_path") =>
                join_hist.pre.pan_timeout_timer /\ join_hist.pre.dao_refresh_timer
        /\ JoinSent("rpl_send_dio") => join_hist.pre.dio_trickle
        /\ JoinSentBefore("is_parent = false", "rpl_send_dio")
        /\ JoinSent("ipv6_send_ns_aro(0)")

\* C32: entering Disconnecting with a parent and an address sends DAO
\* No-Path only if the PAN timeout and DAO refresh timers run, the poisoning
\* DIO only if the DIO trickle runs and after is_parent is cleared, and
\* NS(ARO) lifetime 0 always; every entry ends with RPL stopped and the
\* unregistration timer running, with no preferred parent unless a parent
\* without an assigned address was found, and with the PAN timeout timer
\* running only when the cause is RPL_PREF_LOST.
C32_DisconnectingEntry ==
    /\ JoinDisconnectingGates
    /\ JoinEnteredDisconnecting =>
        /\ join_hist.post.parent = (join_hist.pre.parent /\ ~join_hist.pre.iaaddr)
        /\ ~join_hist.post.rpl_fd /\ ~join_hist.post.dis_txalg
        /\ ~join_hist.post.dio_trickle /\ ~join_hist.post.dao_refresh_timer
        /\ join_hist.post.unregistration_timer
        /\ join_hist.post.pan_timeout_timer => join_hist.event = "RPL_PREF_LOST"

\* Operational left with a parent, an address and all timers running: the
\* three signals are sent, the flag cleared before the DIO.
C32_Witness ==
    /\ JoinEnteredDisconnecting
    /\ join_hist.pre.state = "OPERATIONAL"
    /\ join_hist.tx = <<"rpl_send_dao_no_path", "is_parent = false",
                        "rpl_send_dio", "ipv6_send_ns_aro(0)">>
    /\ ~wsrd.parent

\* C32 as stated: with a parent and an address, DAO No-Path only if the PAN
\* timeout and DAO refresh timers run, the poisoning DIO only if the DIO
\* trickle runs and after is_parent is cleared, NS(ARO) lifetime 0 always;
\* every entry into Disconnecting ends with no preferred parent, RPL stopped
\* and the unregistration timer running, and with the PAN timeout timer
\* running only when the cause is RPL_PREF_LOST.
C32_Original ==
    /\ JoinDisconnectingGates
    /\ JoinEnteredDisconnecting =>
        /\ ~join_hist.post.parent
        /\ ~join_hist.post.rpl_fd /\ ~join_hist.post.dis_txalg
        /\ ~join_hist.post.dio_trickle /\ ~join_hist.post.dao_refresh_timer
        /\ join_hist.post.unregistration_timer
        /\ join_hist.post.pan_timeout_timer => join_hist.event = "RPL_PREF_LOST"

\* wsrd_init_ws has run and the process has not aborted: the daemon is
\* between two event handlers, or has left its main loop
JoinBetweenHandlers == join_hist.op # "main" /\ ~wsrd.crashed

\* C33: between event handlers the EAPOL relay socket is open and the PA and
\* PC trickles run if and only if the state is Operational; the Operational
\* enter action always finds the socket closed and the exit action finds it
\* open.
C33_RelayIffOperational ==
    /\ JoinBetweenHandlers =>
        /\ wsrd.eapol_relay_fd <=> wsrd.state = "OPERATIONAL"
        /\ wsrd.pa_tkl <=> wsrd.state = "OPERATIONAL"
        /\ wsrd.pc_tkl <=> wsrd.state = "OPERATIONAL"
    /\ JoinRan("join_state_5_enter") => ~join_hist.pre.eapol_relay_fd
    /\ JoinRan("join_state_5_exit") => join_hist.pre.eapol_relay_fd

\* Operational was left: the exit action found the socket open and closed
\* it, and stopped both trickles.
C33_Witness ==
    /\ JoinBetweenHandlers
    /\ JoinRan("join_state_5_exit")
    /\ join_hist.pre.eapol_relay_fd /\ join_hist.pre.pa_tkl /\ join_hist.pre.pc_tkl
    /\ ~wsrd.eapol_relay_fd /\ ~wsrd.pa_tkl /\ ~wsrd.pc_tkl

\* C34: between event handlers the PAS trickle runs exactly in Discovery and
\* Reconnect and the PCS trickle exactly in Configure and Reconnect; the
\* exit actions of Discovery and Configure always find their trickle running.
C34_SolicitTrickles ==
    /\ JoinBetweenHandlers =>
        /\ wsrd.pas_tkl <=> wsrd.state \in {"DISCOVERY", "RECONNECT"}
        /\ wsrd.pcs_tkl <=> wsrd.state \in {"CONFIGURE", "RECONNECT"}
    /\ JoinRan("join_state_1_exit") => join_hist.pre.pas_tkl
    /\ JoinRan("join_state_3_exit") => join_hist.pre.pcs_tkl

\* Reconnect was left for Discovery on PC_TIMEOUT: both trickles ran, and
\* only the PAS trickle runs now.
C34_Witness ==
    /\ JoinBetweenHandlers
    /\ JoinRan("join_state_3_reconnect_exit")
    /\ join_hist.pre.pas_tkl /\ join_hist.pre.pcs_tkl
    /\ wsrd.state = "DISCOVERY"
    /\ wsrd.pas_tkl /\ ~wsrd.pcs_tkl

C21_Original ==
    (join_hist.op = "unregistration_timeout"
     /\ join_hist.pre.state # "DISCONNECTING")
        => /\ join_hist.steps = <<>>
           /\ join_hist.post = join_hist.pre

(***************************************************************************)
(* Stored network keys (supplicant_storage.c). A uint32_t is a pair         *)
(* <<high, low>> of 16-bit halves; the text of the file is a sequence of    *)
(* digits.                                                                  *)
(***************************************************************************)
FRAME_COUNTER_OFFSET == 200000

\* The uint32_t of a number below 2^31
U32(n) == <<n \div UINT16_MOD, n % UINT16_MOD>>

UINT32_MAX == <<UINT16_MOD - 1, UINT16_MOD - 1>>

U32Less(a, b) == a[1] < b[1] \/ (a[1] = b[1] /\ a[2] < b[2])

\* a + b in uint32_t arithmetic
U32Add(a, b) ==
    <<(a[1] + b[1] + (a[2] + b[2]) \div UINT16_MOD) % UINT16_MOD,
      (a[2] + b[2]) % UINT16_MOD>>

\* A variant without the saturation.
add32sat_Wrap(a, b) == U32Add(a, b)

\* add32sat
add32sat(a, b) ==
    LET sum == U32Add(a, b)
    IN IF U32Less(sum, a) THEN UINT32_MAX ELSE sum

\* The decimal digits of a positive uint32_t
RECURSIVE U32Digits(_)
U32Digits(v) ==
    IF v = <<0, 0>> THEN <<>>
    ELSE LET low == (v[1] % 10) * UINT16_MOD + v[2]
         IN Append(U32Digits(<<v[1] \div 10, low \div 10>>), low % 10)

\* fprintf("%" PRIu32)
PRIu32(v) == IF v = <<0, 0>> THEN <<0>> ELSE U32Digits(v)

\* The digits read in the base, as <<top, high, low>> (unsigned long)
RECURSIVE StrToULFrom(_, _, _)
StrToULFrom(text, base, acc) ==
    IF text = <<>> \/ Head(text) >= base THEN acc
    ELSE LET low  == acc[3] * base + Head(text)
             high == acc[2] * base + low \div UINT16_MOD
             top  == acc[1] * base + high \div UINT16_MOD
         IN StrToULFrom(Tail(text), base,
                        <<top, high % UINT16_MOD, low % UINT16_MOD>>)

\* strtoul(text, NULL, 0): a leading 0 selects base 8
strtoul(text) ==
    IF Len(text) > 1 /\ Head(text) = 0
    THEN StrToULFrom(Tail(text), 8, <<0, 0, 0>>)
    ELSE StrToULFrom(text, 10, <<0, 0, 0>>)

\* (uint32_t) of an unsigned long
U32Cast(x) == <<x[2], x[3]>>

\* gtks[]: four GTKs, then three LGTKs
SuppSlots == 0..6

\* Frame counters a key may have when the file is written
StoredCounters ==
    {<<0, 0>>, U32(1000),
     <<65532, 62143>>, <<65532, 62144>>, UINT32_MAX}

NoLine == [present |-> FALSE]

\* The lines of one key as supp_storage_store writes them; exp says whether
\* the expiration timestamp is 0, in the past or in the future
SuppLinesOf(counter, exp) ==
    [present |-> TRUE, frame_counter |-> PRIu32(counter), exp |-> exp]

SuppNoGtk == [installed |-> FALSE, frame_counter |-> <<0, 0>>]

\* ws_gtk_clear
ws_gtk_clear(gtk) == SuppNoGtk

\* The slot after the lines of its key are parsed
SuppParsed(gtk, line) ==
    IF ~line.present THEN gtk
    ELSE [installed |-> TRUE,
          frame_counter |-> add32sat(U32Cast(strtoul(line.frame_counter)),
                                     U32(FRAME_COUNTER_OFFSET))]

\* The key lines and the closing loop of supp_storage_load: [gtks, notified]
SuppLoadKeys(gtks, file) ==
    LET parsed == [i \in SuppSlots |-> SuppParsed(gtks[i], file[i])]
        expired(i) == file[i].present /\ file[i].exp = "expired"
        valid(i) == file[i].present /\ file[i].exp = "valid"
    IN [gtks |-> [i \in SuppSlots |->
                    IF expired(i) THEN ws_gtk_clear(parsed[i]) ELSE parsed[i]],
        notified |-> {<<i + 1, parsed[i].frame_counter>> :
                        i \in {j \in SuppSlots : valid(j)}}]

InitSupp ==
    /\ supp_gtks = [i \in SuppSlots |-> SuppNoGtk]
    /\ supp_hist = [op |-> "init"]

\* The daemon starts and reads the file a former run has written.
SuppStorageLoad ==
    /\ supp_hist.op = "init"
    /\ \E keys \in {k \in SUBSET SuppSlots : Cardinality(k) <= MaxStoredKeys} :
       \E stored \in [keys -> StoredCounters],
          exp \in [keys -> {"none", "expired", "valid"}] :
        LET file == [i \in SuppSlots |->
                        IF i \in keys THEN SuppLinesOf(stored[i], exp[i])
                        ELSE NoLine]
            r == SuppLoadKeys(supp_gtks, file)
        IN /\ supp_gtks' = r.gtks
           /\ supp_hist' = [op |-> "load", file |-> file, stored |-> stored,
                            notified |-> r.notified]
    /\ SuppFrame

NextSupp == SuppStorageLoad

(***************************************************************************)
(* Properties of the stored network keys                                   *)
(***************************************************************************)
\* stored + FRAME_COUNTER_OFFSET with an unbounded high half
SuppRaised(v) ==
    LET o == U32(FRAME_COUNTER_OFFSET)
    IN <<v[1] + o[1] + (v[2] + o[2]) \div UINT16_MOD, (v[2] + o[2]) % UINT16_MOD>>

\* min(stored + FRAME_COUNTER_OFFSET, 2^32 - 1)
SuppExpected(v) ==
    IF SuppRaised(v)[1] >= UINT16_MOD THEN UINT32_MAX ELSE SuppRaised(v)

\* C39: the frame counter of every key restored from the file is
\* min(stored + 200000, 2^32 - 1), in the slot and in the notification of
\* the key, and is not below the stored value.
C39_FrameCounterRestored ==
    supp_hist.op = "load" =>
        \A i \in DOMAIN supp_hist.stored :
            /\ supp_hist.file[i].exp # "expired" =>
                /\ supp_gtks[i].installed
                /\ supp_gtks[i].frame_counter = SuppExpected(supp_hist.stored[i])
                /\ ~U32Less(supp_gtks[i].frame_counter, supp_hist.stored[i])
            /\ supp_hist.file[i].exp = "valid" =>
                <<i + 1, SuppExpected(supp_hist.stored[i])>> \in supp_hist.notified
            /\ \A n \in supp_hist.notified :
                n[1] = i + 1 => n[2] = SuppExpected(supp_hist.stored[i])

\* A key stored with a counter less than 200000 below 2^32 - 1 was restored
\* at 2^32 - 1, and another with its counter raised by 200000.
C39_Witness ==
    /\ supp_hist.op = "load"
    /\ \E i, j \in DOMAIN supp_hist.stored :
        /\ supp_hist.file[i].exp = "valid"
        /\ supp_hist.stored[i] = <<65532, 62144>>
        /\ supp_gtks[i].frame_counter = UINT32_MAX
        /\ supp_hist.stored[j] = U32(1000)
        /\ supp_gtks[j].frame_counter = U32(201000)

(***************************************************************************)
(* Authenticator retry timer (authenticator.c)                             *)
(***************************************************************************)
AuthEuis == {1, 2}

\* auth_ctx.timeout_ms, the period of the retry timer, in clock ticks
AuthTimeoutTicks == 1

\* rt_kmp_id: "NONE" is -1, "RADIUS" is 0
AuthKmpIds == {"RADIUS", "8021X", "4WH"}

\* Contents of a saved frame
AuthFrames == {"F1", "F2"}

AuthNoSupp == [present |-> FALSE]

\* auth_rt_timer_stop; since counts the expiries after auth_rt_timer_start
auth_rt_timer_stop(supp) ==
    [supp EXCEPT !.rt_timer = -1, !.rt_buffer = "none", !.rt_kmp_id = "NONE",
                 !.rt_count = 0]

\* auth_rt_timer_start
auth_rt_timer_start(supp, kmp_id, buf) ==
    [auth_rt_timer_stop(supp) EXCEPT !.rt_buffer = buf, !.rt_kmp_id = kmp_id,
                                      !.rt_count = 0,
                                      !.rt_timer = AuthTimeoutTicks,
                                      !.since = 0]

\* auth_remove_supp
auth_remove_supp(supps, eui64) == [supps EXCEPT ![eui64] = AuthNoSupp]

\* auth_is_supp_pmk_valid: a PMK is installed and its lifetime has not passed
auth_is_supp_pmk_valid(supp) == supp.pmk = "valid"

\* The frame a retry sends: EAPOL with the KMP ID, or RADIUS for KMP ID 0;
\* the replay counter and MIC of a 4WH or GKH frame are refreshed
AuthRetryTx(supp) ==
    [via |-> IF supp.rt_kmp_id = "RADIUS" THEN "radius_send" ELSE "auth_send_eapol",
     kmp_id |-> supp.rt_kmp_id, frame |-> supp.rt_buffer,
     refreshed |-> supp.rt_kmp_id = "4WH"]

\* A variant that gives up at the second expiry.
auth_rt_timer_timeout_TwoTries(supps, eui64) ==
    LET supp == [supps[eui64] EXCEPT !.rt_count = @ + 1, !.since = @ + 1,
                                     !.rt_timer = AuthTimeoutTicks]
    IN IF supp.rt_count = 2
       THEN [supps |-> IF auth_is_supp_pmk_valid(supp)
                       THEN [supps EXCEPT ![eui64] = auth_rt_timer_stop(supp)]
                       ELSE auth_remove_supp(supps, eui64),
             tx |-> <<>>]
       ELSE [supps |-> [supps EXCEPT ![eui64] = supp], tx |-> <<AuthRetryTx(supp)>>]

\* auth_rt_timer_timeout, after the periodic timer was started again for
\* the callback: [supps, tx]
auth_rt_timer_timeout(supps, eui64) ==
    LET supp == [supps[eui64] EXCEPT !.rt_count = @ + 1, !.since = @ + 1,
                                     !.rt_timer = AuthTimeoutTicks]
    IN IF supp.rt_count = 3
       THEN [supps |-> IF auth_is_supp_pmk_valid(supp)
                       THEN [supps EXCEPT ![eui64] = auth_rt_timer_stop(supp)]
                       ELSE auth_remove_supp(supps, eui64),
             tx |-> <<>>]
       ELSE [supps |-> [supps EXCEPT ![eui64] = supp], tx |-> <<AuthRetryTx(supp)>>]

\* auth_fetch_supp: the entry of the EUI-64, a new one when there is none
auth_fetch_supp(supps, eui64) ==
    IF supps[eui64].present THEN supps
    ELSE [supps EXCEPT ![eui64] =
            [present |-> TRUE, rt_timer |-> -1, rt_buffer |-> "none",
             rt_kmp_id |-> "NONE", rt_count |-> 0, pmk |-> "none", since |-> 0]]

\* What auth_eap_recv and auth_key_recv may do to the supplicant: nothing,
\* stop the retry timer, or send the next message and start the timer with
\* it, each with or without a PMK newly installed
AuthHandlerEffects ==
    {[rt |-> "keep", pmk |-> FALSE, kmp_id |-> "NONE", frame |-> "none"]}
    \cup {[rt |-> "stop", pmk |-> i, kmp_id |-> "NONE", frame |-> "none"] :
            i \in BOOLEAN}
    \cup {[rt |-> "start", pmk |-> i, kmp_id |-> k, frame |-> f] :
            i \in BOOLEAN, k \in AuthKmpIds, f \in AuthFrames}

AuthHandle(supp, eff) ==
    LET s1 == IF eff.pmk THEN [supp EXCEPT !.pmk = "valid"] ELSE supp
    IN CASE eff.rt = "keep" -> s1
         [] eff.rt = "stop" -> auth_rt_timer_stop(s1)
         [] eff.rt = "start" -> auth_rt_timer_start(s1, eff.kmp_id, eff.frame)

\* The frame is handed to auth_eap_recv or auth_key_recv.
AuthDispatched(supp, kmp_id, packet_type) ==
    /\ supp.rt_kmp_id = kmp_id \/ (kmp_id = "8021X" /\ packet_type = "KEY")
    /\ packet_type \in {"EAP", "KEY"}

\* auth_recv_eapol for a frame whose header is accepted
auth_recv_eapol(supps, kmp_id, eui64, packet_type, eff) ==
    LET fetched == auth_fetch_supp(supps, eui64)
        supp == fetched[eui64]
        after == IF AuthDispatched(supp, kmp_id, packet_type)
                 THEN AuthHandle(supp, eff) ELSE supp
    IN IF after.rt_timer = -1 /\ ~auth_is_supp_pmk_valid(after)
       THEN auth_remove_supp(fetched, eui64)
       ELSE [fetched EXCEPT ![eui64] = after]

\* The packet types auth_recv_eapol lets through for a KMP ID
AuthTypeAccepted(kmp_id, packet_type) ==
    ~ \/ kmp_id = "4WH" /\ packet_type # "KEY"
      \/ kmp_id # "8021X" /\ packet_type = "EAP"

InitAuth ==
    /\ auth_supps = [e \in AuthEuis |-> AuthNoSupp]
    /\ auth_hist = [op |-> "init"]

\* The frames that arrive: one with a bad header or version, and the KMP IDs
\* and packet types with a good one
AuthHeads ==
    {[hdr_ok |-> FALSE, kmp_id |-> "8021X", packet_type |-> "EAP"]}
    \cup {[hdr_ok |-> TRUE, kmp_id |-> k, packet_type |-> t] :
            k \in AuthKmpIds \ {"RADIUS"}, t \in {"EAP", "KEY", "START"}}

\* An EAPOL frame of a supplicant arrives.
AuthRecvEapol ==
    /\ \E eui64 \in AuthEuis, h \in AuthHeads :
        IF h.hdr_ok /\ AuthTypeAccepted(h.kmp_id, h.packet_type)
        THEN \E eff \in IF AuthDispatched(auth_fetch_supp(auth_supps, eui64)[eui64],
                                         h.kmp_id, h.packet_type)
                        THEN AuthHandlerEffects
                        ELSE {CHOOSE e \in AuthHandlerEffects : e.rt = "keep"} :
                /\ auth_supps' = auth_recv_eapol(auth_supps, h.kmp_id, eui64,
                                                 h.packet_type, eff)
                /\ auth_hist' = [op |-> "recv", eui64 |-> eui64, handled |-> TRUE,
                                 tx |-> <<>>]
        ELSE /\ auth_supps' = auth_supps
             /\ auth_hist' = [op |-> "recv", eui64 |-> eui64, handled |-> FALSE,
                              tx |-> <<>>]
    /\ AuthFrame

\* The retry timer of a supplicant expires.
AuthRtTimerTimeout ==
    /\ \E eui64 \in AuthEuis :
        /\ auth_supps[eui64].present
        /\ auth_supps[eui64].rt_timer = 0
        /\ LET r == auth_rt_timer_timeout(auth_supps, eui64)
           IN /\ auth_supps' = r.supps
              /\ auth_hist' = [op |-> "timeout", eui64 |-> eui64, handled |-> TRUE,
                               tx |-> r.tx]
    /\ AuthFrame

\* One tick of the clock while no retry timer is due.
AuthTick ==
    /\ \E e \in AuthEuis : auth_supps[e].present /\ auth_supps[e].rt_timer > 0
    /\ \A e \in AuthEuis : auth_supps[e].present => auth_supps[e].rt_timer # 0
    /\ auth_supps' = [e \in AuthEuis |->
                        IF auth_supps[e].present /\ auth_supps[e].rt_timer > 0
                        THEN [auth_supps[e] EXCEPT !.rt_timer = @ - 1]
                        ELSE auth_supps[e]]
    /\ auth_hist' = [op |-> "tick"]
    /\ AuthFrame

\* The lifetime of a supplicant's PMK runs out.
AuthPmkExpire ==
    /\ \E e \in AuthEuis :
        /\ auth_supps[e].present
        /\ auth_supps[e].pmk = "valid"
        /\ auth_supps' = [auth_supps EXCEPT ![e].pmk = "expired"]
    /\ auth_hist' = [op |-> "pmk_expire"]
    /\ AuthFrame

NextAuth == AuthRecvEapol \/ AuthRtTimerTimeout \/ AuthTick \/ AuthPmkExpire

(***************************************************************************)
(* Properties of the authenticator retry timer                             *)
(***************************************************************************)
\* An entry with a stopped retry timer and no valid PMK
AuthStale(supp) ==
    supp.present /\ supp.rt_timer = -1 /\ ~auth_is_supp_pmk_valid(supp)

\* The last step was a handled EAPOL frame or a retry timeout.
AuthHandled ==
    auth_hist.op \in {"recv", "timeout"} /\ auth_hist.handled

\* The first and the second expiry after auth_rt_timer_start send the saved
\* frame and leave it saved with the timer running; the third sends nothing,
\* removes a supplicant without valid PMK and leaves any other with the
\* timer stopped and the buffer released.
AuthRetrySteps ==
    auth_hist'.op = "timeout" =>
        LET pre  == auth_supps[auth_hist'.eui64]
            post == auth_supps'[auth_hist'.eui64]
        IN /\ pre.since \in 0..2
           /\ pre.since < 2 =>
                /\ Len(auth_hist'.tx) = 1
                /\ auth_hist'.tx[1].frame = pre.rt_buffer
                /\ auth_hist'.tx[1].kmp_id = pre.rt_kmp_id
                /\ post.present /\ post.rt_timer > 0
                /\ post.rt_buffer = pre.rt_buffer
           /\ pre.since = 2 =>
                /\ auth_hist'.tx = <<>>
                /\ ~auth_is_supp_pmk_valid(pre) => ~post.present
                /\ auth_is_supp_pmk_valid(pre) =>
                    /\ post.present /\ post.rt_timer = -1
                    /\ post.rt_buffer = "none"

\* A stopped retry timer has no saved frame, and a saved frame is one that
\* auth_rt_timer_start was given.
AuthStoppedReleased ==
    \A e \in AuthEuis :
        auth_supps[e].present =>
            /\ auth_supps[e].rt_timer = -1 <=> auth_supps[e].rt_buffer = "none"
            /\ auth_supps[e].rt_timer = -1 <=> auth_supps[e].rt_kmp_id = "NONE"

\* C40 as stated: after a handled frame or a retry timeout no entry at all
\* has a stopped retry timer and no valid PMK.
C40_Original ==
    /\ [][AuthRetrySteps]_vars
    /\ [](AuthStoppedReleased)
    /\ [](AuthHandled => \A e \in AuthEuis : ~AuthStale(auth_supps[e]))

\* C40 (amended): the retry steps as above, and after a handled EAPOL frame
\* or a retry timeout the supplicant it belongs to has no entry with a
\* stopped retry timer and no valid PMK.
C40_RetryTimer ==
    /\ [][AuthRetrySteps]_vars
    /\ [](AuthStoppedReleased)
    /\ [](AuthHandled => ~AuthStale(auth_supps[auth_hist.eui64]))

\* The third expiry has removed a supplicant without valid PMK while the
\* other supplicant's entry, its PMK expired and its timer stopped, stays.
C40_Witness ==
    /\ auth_hist.op = "timeout"
    /\ auth_hist.tx = <<>>
    /\ ~auth_supps[auth_hist.eui64].present
    /\ \E e \in AuthEuis : AuthStale(auth_supps[e])

(***************************************************************************)
(* Specifications                                                          *)
(***************************************************************************)
Init == InitFrag /\ InitEtx /\ InitRpl /\ InitJoin /\ InitSupp /\ InitAuth

SpecFrag == Init /\ [][NextFrag]_vars

SpecFragMatch == Init /\ [][NextFragMatch]_vars

SpecFragTx == Init /\ [][NextFragTx]_vars

SpecEtx == Init /\ [][NextEtx]_vars

\* The start of a single selection run on a drawn neighbor cache
InitSelect == InitFrag /\ InitEtx /\ InitRplDrawn /\ InitJoin /\ InitSupp /\ InitAuth

SpecRplSelect == InitSelect /\ [][NextRplSelect]_vars

SpecRpl == Init /\ [][NextRpl]_vars

\* Candidate checks of one drawn neighbor while its RSL moves
InitCheck == InitFrag /\ InitEtx /\ InitRplCheck /\ InitJoin /\ InitSupp /\ InitAuth

SpecRplCheck == InitCheck /\ [][NextRplCheck]_vars

SpecJoin == Init /\ [][NextJoin]_vars

SpecSupp == Init /\ [][NextSupp]_vars

SpecAuth == Init /\ [][NextAuth]_vars

\* One call of an enter action on a drawn daemon
InitEnter == InitFrag /\ InitEtx /\ InitRpl /\ InitJoinDrawn /\ InitSupp /\ InitAuth

SpecJoinEnter == InitEnter /\ [][NextJoinEnter]_vars

\* An armed unregistration timer expires: the main loop polls its timerfd.
SpecJoinFair ==
    Init /\ [][NextJoin]_vars /\ WF_vars(JoinUnregistrationTimeout)
====
